---- MODULE Spec2Model ----
(***************************************************************************)
(* Pod assembly (pkg/pod.Builder.Build) and the step-ordering protocol of  *)
(* the entrypoint wrapper that the assembled containers run through.       *)
(*                                                                         *)
(* Step indices are 0-based as in the Go code (StepName(name, i)); TLA+    *)
(* sequences are 1-based, so the step at position p has index p - 1.       *)
(***************************************************************************)
EXTENDS Integers, Sequences, FiniteSets, TLC

\* Bounds of the model.
MaxSteps == 3

----------------------------------------------------------------------------
(* Data model                                                              *)

\* onError as written in a Step: absent ("") or "continue".
OnErrorValues == {"", "continue"}

\* The wrapper's policy parameter.
StopAndFail == "stopAndFail"
Continue == "continue"

\* Reasons of a StepOutcome; "" while no outcome has been produced.
Completed == "Completed"
Errored == "Errored"
ErroredIgnored == "ErroredIgnored"
TimedOut == "TimedOut"
ExternallyTerminated == "ExternallyTerminated"
Reasons == {Completed, Errored, ErroredIgnored, TimedOut, ExternallyTerminated}
FailureReasons == {Errored, TimedOut, ExternallyTerminated}

\* States of the wrapper state machine of one step.
Waiting == "Waiting"
Running == "Running"
Succeeded == "Succeeded"
Failed == "Failed"
Skipped == "Skipped"
StepStates == {Waiting, Running, Succeeded, Failed, Skipped}
Terminal == {Succeeded, Failed, Skipped}

\* Exit codes a real command may end with (an arbitrary command).
ExitCodes == {0, 1, 11}
NonZeroCodes == ExitCodes \ {0}
\* The exit code of a command that was killed (by its wrapper on a timeout
\* or a termination signal): non-zero.
KilledCodes == {137}

\* Result names a generic TaskSpec may declare, and the values written.
ResultNames == {"r"}
ResultValues == {"v"}

\* What a step runs.
\*   kind "any"   : a command with arguments, arbitrary (any exit code;
\*                  writes `result`, when it names one, or not at all)
\*   kind "exit"  : a script body that writes `result` := `value` when it names one, then
\*                  exits with `code`
\*   kind "check" : a script body that exits 0 when parameter `param` equals `value`, else 1
AnyScript(result) ==
    [kind |-> "any", code |-> 0, result |-> result, value |-> "", param |-> ""]
ExitScript(code, result, value) ==
    [kind |-> "exit", code |-> code, result |-> result, value |-> value, param |-> ""]
CheckScript(param, value) ==
    [kind |-> "check", code |-> 1, result |-> "", value |-> value, param |-> param]

\* A step or sidecar that declares no resource requests or limits.
NoResources == [requests |-> <<>>, limits |-> <<>>]

MkStep(name, onError, hasTimeout, script) ==
    [name |-> name, onError |-> onError, timeout |-> hasTimeout, script |-> script,
     env |-> <<>>, workingDir |-> "", volumeMounts |-> <<>>,
     resources |-> NoResources]

MkSidecar(name) ==
    [name |-> name, script |-> AnyScript(""), env |-> <<>>, workingDir |-> "",
     volumeMounts |-> <<>>, resources |-> NoResources]

\* The result names that step p of `steps` produces.
Produces(steps, p) == {steps[p].script.result} \ {""}

\* "exactly one producer per declared Result name", and nothing undeclared.
WellFormedResults(steps, results) ==
    /\ \A k \in 1..Len(results) :
          Cardinality({p \in 1..Len(steps) : results[k] \in Produces(steps, p)}) = 1
    /\ \A p \in 1..Len(steps) :
          Produces(steps, p) \subseteq {results[k] : k \in 1..Len(results)}

SeqsUpTo(S, n) == UNION {[1..k -> S] : k \in 1..n}

GenericSteps ==
    {MkStep(n, e, t, AnyScript(r)) :
        n \in {""}, e \in OnErrorValues, t \in BOOLEAN, r \in ResultNames \cup {""}}

GenericSidecars == {<<>>, <<MkSidecar("sc")>>}

GenericTaskSpecs ==
    {[steps |-> ss, sidecars |-> sc, results |-> rs] :
        ss \in SeqsUpTo(GenericSteps, MaxSteps),
        sc \in GenericSidecars,
        rs \in {<<>>} \cup {<<r>> : r \in ResultNames}}

----------------------------------------------------------------------------
(* Pod assembly: Builder.Build and the collaborators it calls              *)

\* The stages of Build that can fail, in the order Build reaches them.
FailStages ==
    <<"credsInit", "MergeStepsWithStepTemplate", "resolveEntrypoints",
      "orderContainers", "getLimitRangeMinimum", "ValidateVolumes",
      "changeset.Get">>
FailStageSet == {FailStages[k] : k \in 1..Len(FailStages)}
NoFailure == "none"

\* The annotation that asks for an execution mode, and the hermetic mode.
ExecutionModeAnnotation == "experimental.tekton.dev/execution-mode"
ExecutionModeHermetic == "hermetic"
TektonHermeticEnvVar == "TEKTON_HERMETIC"

\* pipeline.WorkspaceDir and pipeline.HomeDir.
WorkspaceDir == "/workspace"
HomeDir == "/tekton/home"

\* A Go map of strings: nil, or a map with the given entries.
NilMap == [isNil |-> TRUE, entries |-> <<>>]
GoMap(entries) == [isNil |-> FALSE, entries |-> entries]

\* A Go map read at a key: the value, or "" when the key is absent (also
\* of a nil map).
Lookup(m, k) == IF k \in DOMAIN m.entries THEN m.entries[k] ELSE ""

\* m[k] = v on a map that is not nil: the map itself changes.
MapPut(m, k, v) ==
    [m EXCEPT !.entries = [x \in DOMAIN m.entries \cup {k} |->
                              IF x = k THEN v ELSE m.entries[x]]]

EnvVar(name, value) == [name |-> name, value |-> value]

\* Builder options and feature flags Build reads, and the LimitRanges of
\* the namespace that the Builder's KubeClient lists.
MkConfig(overrideHomeEnv, alphaAPIEnabled, disableWorkingDirOverwrite) ==
    [overrideHomeEnv |-> overrideHomeEnv,
     alphaAPIEnabled |-> alphaAPIEnabled,
     disableWorkingDirOverwrite |-> disableWorkingDirOverwrite,
     runningInEnvWithInjectedSidecars |-> FALSE,
     limitRanges |-> <<>>]
Configs == {MkConfig(h, a, w) : h \in BOOLEAN, a \in BOOLEAN, w \in BOOLEAN}
DefaultConfig == MkConfig(TRUE, FALSE, FALSE)

\* shouldOverrideWorkingDir.
ShouldOverrideWorkingDir(cfg) == ~cfg.disableWorkingDirOverwrite

EntrypointBinary == "/tekton/tools/entrypoint"
SidecarPrefix == "sidecar-"
\* corev1.Affinity: a node affinity ("" for none) and the required
\* pod-affinity terms. NoAffinity is the nil pointer.
NoAffinity == [nodeAffinity |-> "", podAffinity |-> <<>>]
NoPod ==
    [initContainers |-> <<>>, containers |-> <<>>, annotations |-> NilMap,
     labels |-> <<>>, affinity |-> NoAffinity]

\* The container a step or sidecar becomes before it is wrapped: it runs
\* its own command directly, waits for nothing and signals nothing.
PlainContainer(s, script) ==
    [name |-> s.name, command |-> "", script |-> script,
     env |-> s.env, workingDir |-> s.workingDir,
     volumeMounts |-> s.volumeMounts, resources |-> s.resources,
     waitFiles |-> {}, postFile |-> {}, onError |-> StopAndFail,
     timeout |-> FALSE, results |-> {}]

\* MergeStepsWithStepTemplate keeps the steps and their order.
MergeStepsWithStepTemplate(steps) == steps

\* convertScripts: one container per step and per sidecar, in order; the
\* script-staging init container exists when some script body was used.
ConvertStepContainers(steps) ==
    [p \in 1..Len(steps) |-> PlainContainer(steps[p], steps[p].script)]
ConvertSidecarContainers(sidecars) ==
    [p \in 1..Len(sidecars) |-> PlainContainer(sidecars[p], sidecars[p].script)]
ScriptsInit(steps, sidecars) ==
    IF \/ \E p \in 1..Len(steps) : steps[p].script.kind # "any"
       \/ \E p \in 1..Len(sidecars) : sidecars[p].script.kind # "any"
    THEN <<"place-scripts">> ELSE <<>>

\* The working directories that lie below the workspace root and have to
\* be created before the steps run: a path below /workspace, or a
\* relative path.
DirsUnderWorkspace == {"/workspace/src", "src"}

\* workingDirInit: the initializer exists when some step container
\* declares a working directory below the workspace root.
WorkingDirInit(stepContainers) ==
    IF \E p \in 1..Len(stepContainers) :
          stepContainers[p].workingDir \in DirsUnderWorkspace
    THEN <<"working-dir-initializer">> ELSE <<>>

\* The wrapper's policy parameter for a step's onError.
PolicyOf(onError) == IF onError = "continue" THEN Continue ELSE StopAndFail

\* The completion marker of the step with (0-based) index i.
MarkerOf(i) == i

\* orderContainers: every step is rewritten to run through the wrapper,
\* parameterized with its wait-target (the predecessor's completion marker,
\* none for the first step), the marker it writes, its onError policy, its
\* timeout and its declared results.
OrderContainers(stepContainers, taskSpec) ==
    [p \in 1..Len(stepContainers) |->
        [stepContainers[p] EXCEPT
            !.command = EntrypointBinary,
            !.waitFiles = IF p = 1 THEN {} ELSE {MarkerOf(p - 2)},
            !.postFile = {MarkerOf(p - 1)},
            !.onError = PolicyOf(taskSpec.steps[p].onError),
            !.timeout = taskSpec.steps[p].timeout,
            !.results = Produces(taskSpec.steps, p)]]

EntrypointInit == "place-tools"

\* StepName: "step-<name>", or "step-unnamed-<i>" for a step without name.
StepName(name, i) ==
    IF name = "" THEN "step-unnamed-" \o ToString(i) ELSE "step-" \o name

\* names.SimpleNameGenerator.RestrictLength for the names of the model, all
\* shorter than the 63 characters it cuts a name to.
RestrictLength(name) == name

\* Mutant of AddImplicitEnv: the implicit variables are appended to the
\* user's instead of prepended.
AddImplicitEnvLast(stepContainers, implicitEnvVars) ==
    IF Len(implicitEnvVars) > 0
    THEN [p \in 1..Len(stepContainers) |->
            [stepContainers[p] EXCEPT !.env = @ \o implicitEnvVars]]
    ELSE stepContainers

\* Implicit env vars are prepended to every step's own, so that a user
\* variable of the same name takes precedence.
ImplicitEnvVars(cfg) ==
    IF cfg.overrideHomeEnv THEN <<EnvVar("HOME", HomeDir)>> ELSE <<>>
AddImplicitEnv(stepContainers, implicitEnvVars) ==
    IF Len(implicitEnvVars) > 0
    THEN [p \in 1..Len(stepContainers) |->
            [stepContainers[p] EXCEPT !.env = implicitEnvVars \o @]]
    ELSE stepContainers

\* The hermetic flag is appended, so that it overrides.
AddHermeticEnv(stepContainers, cfg, taskRun) ==
    IF Lookup(taskRun.annotations, ExecutionModeAnnotation) = ExecutionModeHermetic
       /\ cfg.alphaAPIEnabled
    THEN [p \in 1..Len(stepContainers) |->
            [stepContainers[p] EXCEPT !.env = Append(@, EnvVar(TektonHermeticEnvVar, "1"))]]
    ELSE stepContainers

\* The loop that defaults workingDir to /workspace and sets the container
\* name.
NameSteps(stepContainers, cfg) ==
    [p \in 1..Len(stepContainers) |->
        [stepContainers[p] EXCEPT
            !.workingDir = IF @ = "" /\ ShouldOverrideWorkingDir(cfg)
                           THEN WorkspaceDir ELSE @,
            !.name = RestrictLength(StepName(stepContainers[p].name, p - 1))]]

\* Mutant of NameSidecars: the sidecar keeps its declared name.
NameSidecarsUnprefixed(sidecarContainers) ==
    [p \in 1..Len(sidecarContainers) |->
        [sidecarContainers[p] EXCEPT
            !.name = RestrictLength(sidecarContainers[p].name)]]

NameSidecars(sidecarContainers) ==
    [p \in 1..Len(sidecarContainers) |->
        [sidecarContainers[p] EXCEPT
            !.name = RestrictLength(SidecarPrefix \o sidecarContainers[p].name)]]

\* Resource quantities are in milli-units (250 is 250m). A ResourceList
\* maps resource names to quantities; read at a name it lacks it gives the
\* zero quantity.
ResourceNames == {"cpu", "memory"}
Qty(list, k) == IF k \in DOMAIN list THEN list[k] ELSE 0
allZeroQty == [k \in ResourceNames |-> 0]

LimitTypeContainer == "Container"
LimitTypePod == "Pod"
\* A LimitRangeItem; a LimitRange is the sequence of its items (Spec.Limits).
LimitRangeItem(type, min) == [type |-> type, min |-> min]

\* Mutant of RaiseTo: a declared minimum replaces the one found so far.
RaiseToLatest(min, itemMin) ==
    [k \in DOMAIN min \cup DOMAIN itemMin |->
        IF k \in DOMAIN itemMin THEN itemMin[k] ELSE min[k]]

\* for k, v := range lrItem.Min { if v.Cmp(min[k]) > 0 { min[k] = v } }
\* (ranging over a nil Min does nothing, like over an empty one).
RaiseTo(min, itemMin) ==
    [k \in DOMAIN min \cup {x \in DOMAIN itemMin : itemMin[x] > Qty(min, x)} |->
        IF Qty(itemMin, k) > Qty(min, k) THEN itemMin[k] ELSE min[k]]

\* The loop over the items of one LimitRange, from item i on.
RECURSIVE MinOverItems(_, _, _)
MinOverItems(min, lrItems, i) ==
    IF i > Len(lrItems) THEN min
    ELSE MinOverItems(IF lrItems[i].type = LimitTypeContainer
                      THEN RaiseTo(min, lrItems[i].min) ELSE min,
                      lrItems, i + 1)

\* The loop over the listed LimitRanges, from the i-th on.
RECURSIVE MinOverRanges(_, _, _)
MinOverRanges(min, limitRanges, i) ==
    IF i > Len(limitRanges) THEN min
    ELSE MinOverRanges(MinOverItems(min, limitRanges[i], 1), limitRanges, i + 1)

\* getLimitRangeMinimum, once the LimitRanges were listed.
getLimitRangeMinimum(limitRanges) == MinOverRanges(allZeroQty, limitRanges, 1)

\* The requests of one container under the floor: a request below the
\* floor (an absent one counts as zero) becomes the floor.
ApplyFloor(requests, floor) ==
    [k \in DOMAIN requests \cup {x \in DOMAIN floor : floor[x] > 0} |->
        IF Qty(requests, k) < Qty(floor, k) THEN floor[k] ELSE requests[k]]

\* resolveResourceRequests: the floor applied to every step container;
\* limits are left alone.
resolveResourceRequests(stepContainers, limitRangeMin) ==
    [p \in 1..Len(stepContainers) |->
        [stepContainers[p] EXCEPT
            !.resources.requests = ApplyFloor(@, limitRangeMin)]]

\* A path is the sequence of its segments, the texts between slashes;
\* every path of the model is rooted. filepath.Clean drops empty and "."
\* segments and lets ".." cancel the segment before it (at the root it is
\* dropped).
RECURSIVE CleanFrom(_, _, _)
CleanFrom(path, i, out) ==
    IF i > Len(path) THEN out
    ELSE CleanFrom(path, i + 1,
                   IF path[i] \in {"", "."} THEN out
                   ELSE IF path[i] = ".."
                        THEN SubSeq(out, 1, Len(out) - 1)
                        ELSE Append(out, path[i]))
Clean(path) == CleanFrom(path, 1, <<>>)

VolumeMount(name, mountPath) == [name |-> name, mountPath |-> mountPath]

\* implicitVolumeMounts: pipeline.WorkspaceDir, HomeDir, DefaultResultPath
\* and StepsDir.
implicitVolumeMounts ==
    <<VolumeMount("tekton-internal-workspace", <<"workspace">>),
      VolumeMount("tekton-internal-home", <<"tekton", "home">>),
      VolumeMount("tekton-internal-results", <<"tekton", "results">>),
      VolumeMount("tekton-internal-steps", <<"tekton", "steps">>)>>

\* getCredsInitVolume: the private credentials mount of step i.
CredsInitMount(i) ==
    VolumeMount("tekton-creds-init-home-" \o ToString(i), <<"tekton", "creds">>)

\* The mounts of volumeMounts, from the i-th on, whose cleaned path is not
\* requested, in their order.
RECURSIVE NotRequestedFrom(_, _, _)
NotRequestedFrom(volumeMounts, i, requestedVolumeMounts) ==
    IF i > Len(volumeMounts) THEN <<>>
    ELSE (IF Clean(volumeMounts[i].mountPath) \notin requestedVolumeMounts
          THEN <<volumeMounts[i]>> ELSE <<>>)
         \o NotRequestedFrom(volumeMounts, i + 1, requestedVolumeMounts)

\* Mutant of MountsOf: every implicit mount is added.
MountsOfUnconditional(own, volumeMounts) == own \o volumeMounts

\* The mounts of one step container with its own mounts `own`: the
\* implicit ones whose cleaned path it does not mount itself are appended.
MountsOf(own, volumeMounts) ==
    LET requestedVolumeMounts == {Clean(own[k].mountPath) : k \in 1..Len(own)}
    IN own \o NotRequestedFrom(volumeMounts, 1, requestedVolumeMounts)

\* The loop that adds the credentials mount and the implicit mounts to
\* each step.
AddImplicitMounts(stepContainers, volumeMounts) ==
    [p \in 1..Len(stepContainers) |->
        [stepContainers[p] EXCEPT
            !.volumeMounts = MountsOf(Append(@, CredsInitMount(p - 1)), volumeMounts)]]

\* Annotation and label keys and the values Build stamps.
AnnotationAffinityAssistantName == "pipeline.tekton.dev/affinity-assistant"
LabelInstance == "app.kubernetes.io/instance"
LabelComponent == "app.kubernetes.io/component"
ComponentNameAffinityAssistant == "affinity-assistant"
TopologyKeyHostname == "kubernetes.io/hostname"
TaskRunLabelKey == "tekton.dev/taskRun"
ReleaseAnnotation == "pipeline.tekton.dev/release"
Version == "devel"
readyAnnotation == "tekton.dev/ready"
readyAnnotationValue == "READY"

PodAffinityTerm(matchLabels, topologyKey) ==
    [matchLabels |-> matchLabels, topologyKey |-> topologyKey]

\* nodeAffinityUsingAffinityAssistant.
nodeAffinityUsingAffinityAssistant(affinityAssistantName) ==
    [nodeAffinity |-> "",
     podAffinity |->
        <<PodAffinityTerm([k \in {LabelInstance, LabelComponent} |->
                              IF k = LabelInstance THEN affinityAssistantName
                              ELSE ComponentNameAffinityAssistant],
                          TopologyKeyHostname)>>]

\* Mutant of AffinityOf: the co-location term is added to the user's.
AffinityOfBoth(taskRun) ==
    LET affinityAssistantName ==
            Lookup(taskRun.annotations, AnnotationAffinityAssistantName)
        a == nodeAffinityUsingAffinityAssistant(affinityAssistantName)
    IN IF affinityAssistantName # ""
       THEN [nodeAffinity |-> taskRun.affinity.nodeAffinity,
             podAffinity |-> taskRun.affinity.podAffinity \o a.podAffinity]
       ELSE taskRun.affinity

\* The affinity of the pod: the Affinity Assistant's when the request names
\* one, else the pod template's.
AffinityOf(taskRun) ==
    LET affinityAssistantName ==
            Lookup(taskRun.annotations, AnnotationAffinityAssistantName)
    IN IF affinityAssistantName # ""
       THEN nodeAffinityUsingAffinityAssistant(affinityAssistantName)
       ELSE taskRun.affinity

\* Mutant of makeLabels: the identifying label is set before the caller's
\* labels are copied.
makeLabelsCallerLast(taskRun) ==
    [k \in DOMAIN taskRun.labels \cup {TaskRunLabelKey} |->
        IF k \in DOMAIN taskRun.labels THEN taskRun.labels[k] ELSE taskRun.name]

\* makeLabels: the caller's labels, then the identifying label.
makeLabels(taskRun) ==
    [k \in DOMAIN taskRun.labels \cup {TaskRunLabelKey} |->
        IF k = TaskRunLabelKey THEN taskRun.name ELSE taskRun.labels[k]]

\* Mutant of shouldAddReadyAnnotationOnPodCreate: the sidecars are not
\* looked at.
shouldAddReadyAnnotationIgnoringSidecars(cfg, sidecars) ==
    ~cfg.runningInEnvWithInjectedSidecars

shouldAddReadyAnnotationOnPodCreate(cfg, sidecars) ==
    IF Len(sidecars) > 0 THEN FALSE
    ELSE ~cfg.runningInEnvWithInjectedSidecars

\* What a call of Build leaves: the error ("none" on success), the pod,
\* and the caller's TaskRun as it is after the call.
BuildError(stage, taskRun) == [err |-> stage, pod |-> NoPod, taskRun |-> taskRun]

\* Writing an entry of a nil map panics.
Panic == "panic: assignment to entry in nil map"

\* Mutant of FinishSteps: the floor of the namespace is not applied.
FinishStepsWithoutFloor(cfg, taskRun, stepContainers) ==
    LET withEnv == AddHermeticEnv(AddImplicitEnv(stepContainers, ImplicitEnvVars(cfg)),
                                  cfg, taskRun)
    IN NameSteps(AddImplicitMounts(withEnv, implicitVolumeMounts), cfg)

\* The transformations of the wrapped step containers: resource floor, env,
\* mounts, working directory and name.
FinishSteps(cfg, taskRun, stepContainers) ==
    LET resolved == resolveResourceRequests(stepContainers,
                                            getLimitRangeMinimum(cfg.limitRanges))
        withEnv == AddHermeticEnv(AddImplicitEnv(resolved, ImplicitEnvVars(cfg)),
                                  cfg, taskRun)
    IN NameSteps(AddImplicitMounts(withEnv, implicitVolumeMounts), cfg)

\* The end of Build, from the annotations on. podAnnotations is the
\* TaskRun's own annotation map, not a copy of it: the entries Build sets
\* are set in the caller's TaskRun.
Assemble(cfg, taskRun, taskSpec, initContainers, mergedPodContainers, fail) ==
    IF fail = "changeset.Get" THEN BuildError(fail, taskRun) ELSE
    IF taskRun.annotations.isNil THEN BuildError(Panic, taskRun) ELSE
    LET released == MapPut(taskRun.annotations, ReleaseAnnotation, Version)
        podAnnotations ==
            IF shouldAddReadyAnnotationOnPodCreate(cfg, taskSpec.sidecars)
            THEN MapPut(released, readyAnnotation, readyAnnotationValue)
            ELSE released
    IN [err |-> NoFailure,
        pod |-> [initContainers |-> initContainers,
                 containers |-> mergedPodContainers,
                 annotations |-> podAnnotations,
                 labels |-> makeLabels(taskRun),
                 affinity |-> AffinityOf(taskRun)],
        taskRun |-> [taskRun EXCEPT !.annotations = podAnnotations]]

\* Mutant of Build: the result of orderContainers is dropped, so the steps
\* are launched directly instead of through the wrapper.
BuildDirect(cfg, taskRun, taskSpec, fail) ==
    IF fail \notin {NoFailure, "changeset.Get"} THEN BuildError(fail, taskRun) ELSE
    LET steps == MergeStepsWithStepTemplate(taskSpec.steps)
        converted == ConvertStepContainers(steps)
    IN Assemble(cfg, taskRun, taskSpec,
                <<EntrypointInit>> \o ScriptsInit(steps, taskSpec.sidecars) \o WorkingDirInit(converted),
                FinishSteps(cfg, taskRun, converted)
                \o NameSidecars(ConvertSidecarContainers(taskSpec.sidecars)),
                fail)

\* Mutant of Build: the step containers are appended to the sidecars.
BuildSidecarsFirst(cfg, taskRun, taskSpec, fail) ==
    IF fail \notin {NoFailure, "changeset.Get"} THEN BuildError(fail, taskRun) ELSE
    LET steps == MergeStepsWithStepTemplate(taskSpec.steps)
        converted == ConvertStepContainers(steps)
    IN Assemble(cfg, taskRun, taskSpec,
                <<EntrypointInit>> \o ScriptsInit(steps, taskSpec.sidecars) \o WorkingDirInit(converted),
                NameSidecars(ConvertSidecarContainers(taskSpec.sidecars))
                \o FinishSteps(cfg, taskRun, OrderContainers(converted, taskSpec)),
                fail)

\* Mutant of Build: the error of ValidateVolumes is not returned, the pod
\* is assembled all the same.
BuildIgnoringVolumeError(cfg, taskRun, taskSpec, fail) ==
    IF fail \in {"credsInit", "MergeStepsWithStepTemplate", "resolveEntrypoints",
                 "orderContainers", "getLimitRangeMinimum"}
    THEN BuildError(fail, taskRun) ELSE
    LET steps == MergeStepsWithStepTemplate(taskSpec.steps)
        converted == ConvertStepContainers(steps)
        initContainers == <<EntrypointInit>> \o ScriptsInit(steps, taskSpec.sidecars)
                                             \o WorkingDirInit(converted)
        stepContainers == FinishSteps(cfg, taskRun, OrderContainers(converted, taskSpec))
        mergedPodContainers ==
            stepContainers \o NameSidecars(ConvertSidecarContainers(taskSpec.sidecars))
    IN Assemble(cfg, taskRun, taskSpec, initContainers, mergedPodContainers, fail)

\* Mutant of Build: the entrypoint init container is appended to the
\* init containers instead of placed first.
BuildEntrypointInitLast(cfg, taskRun, taskSpec, fail) ==
    IF fail = "credsInit" THEN BuildError(fail, taskRun) ELSE
    IF fail = "MergeStepsWithStepTemplate" THEN BuildError(fail, taskRun) ELSE
    LET steps == MergeStepsWithStepTemplate(taskSpec.steps)
        converted == ConvertStepContainers(steps)
        sidecarContainers == ConvertSidecarContainers(taskSpec.sidecars)
        init1 == ScriptsInit(steps, taskSpec.sidecars) \o WorkingDirInit(converted)
    IN
    IF fail = "resolveEntrypoints" THEN BuildError(fail, taskRun) ELSE
    IF fail = "orderContainers" THEN BuildError(fail, taskRun) ELSE
    LET ordered == OrderContainers(converted, taskSpec)
        initContainers == init1 \o <<EntrypointInit>>
    IN
    IF fail = "getLimitRangeMinimum" THEN BuildError(fail, taskRun) ELSE
    LET stepContainers == FinishSteps(cfg, taskRun, ordered) IN
    IF fail = "ValidateVolumes" THEN BuildError(fail, taskRun) ELSE
    LET mergedPodContainers == stepContainers \o NameSidecars(sidecarContainers) IN
    Assemble(cfg, taskRun, taskSpec, initContainers, mergedPodContainers, fail)

\* Builder.Build for the Builder options and feature flags cfg. `fail`
\* names the call whose collaborator fails, if any.
Build(cfg, taskRun, taskSpec, fail) ==
    IF fail = "credsInit" THEN BuildError(fail, taskRun) ELSE
    IF fail = "MergeStepsWithStepTemplate" THEN BuildError(fail, taskRun) ELSE
    LET steps == MergeStepsWithStepTemplate(taskSpec.steps)
        converted == ConvertStepContainers(steps)
        sidecarContainers == ConvertSidecarContainers(taskSpec.sidecars)
        init1 == ScriptsInit(steps, taskSpec.sidecars) \o WorkingDirInit(converted)
    IN
    IF fail = "resolveEntrypoints" THEN BuildError(fail, taskRun) ELSE
    IF fail = "orderContainers" THEN BuildError(fail, taskRun) ELSE
    LET ordered == OrderContainers(converted, taskSpec)
        initContainers == <<EntrypointInit>> \o init1
    IN
    IF fail = "getLimitRangeMinimum" THEN BuildError(fail, taskRun) ELSE
    LET stepContainers == FinishSteps(cfg, taskRun, ordered) IN
    IF fail = "ValidateVolumes" THEN BuildError(fail, taskRun) ELSE
    LET mergedPodContainers == stepContainers \o NameSidecars(sidecarContainers) IN
    Assemble(cfg, taskRun, taskSpec, initContainers, mergedPodContainers, fail)

----------------------------------------------------------------------------
(* Reference matcher. A text is a sequence of one-character strings.       *)

Digits == {"0", "1", "2", "3", "4", "5", "6", "7", "8", "9"}
LowerCase ==
    {"a", "b", "c", "d", "e", "f", "g", "h", "i", "j", "k", "l", "m", "n", "o", "p", "q", "r", "s", "t", "u", "v", "w", "x", "y", "z"}
UpperCase ==
    {"A", "B", "C", "D", "E", "F", "G", "H", "I", "J", "K", "L", "M", "N", "O", "P", "Q", "R", "S", "T", "U", "V", "W", "X", "Y", "Z"}
\* The character class [_a-zA-Z0-9.-].
NameChars == LowerCase \cup UpperCase \cup Digits \cup {"_", ".", "-"}

\* The character of t at position i, "" beyond its ends.
At(t, i) == IF i \in 1..Len(t) THEN t[i] ELSE ""

\* The first position from i on whose character is not in S.
RECURSIVE RunEnd(_, _, _)
RunEnd(t, i, S) == IF At(t, i) \in S THEN RunEnd(t, i + 1, S) ELSE i

\* variableSubstitutionFormat,
\*   \$\([_a-zA-Z0-9.-]+(\.[_a-zA-Z0-9.-]+)*(\[([0-9]+|\*)\])?\)
\* matched at position i of t: the position of the closing parenthesis, 0
\* when there is no match at i. The class holds the dot, so the name is
\* the longest run of class characters; what follows it is an optional
\* [digits] or [*] and then the closing parenthesis.
MatchEnd(t, i) ==
    IF At(t, i) # "$" \/ At(t, i + 1) # "(" THEN 0
    ELSE LET j == RunEnd(t, i + 2, NameChars)
             d == RunEnd(t, j + 1, Digits)
             k == IF At(t, j) # "[" THEN j
                  ELSE IF At(t, j + 1) = "*" /\ At(t, j + 2) = "]" THEN j + 3
                  ELSE IF d > j + 1 /\ At(t, d) = "]" THEN d + 1
                  ELSE j
         IN IF j > i + 2 /\ At(t, k) = ")" THEN k ELSE 0

\* VariableSubstitutionRegex.FindAllString(t, -1) from position i on: the
\* leftmost matches, none overlapping another.
RECURSIVE FindAllFrom(_, _)
FindAllFrom(t, i) ==
    IF i > Len(t) THEN <<>>
    ELSE LET e == MatchEnd(t, i) IN
         IF e > 0 THEN <<SubSeq(t, i, e)>> \o FindAllFrom(t, e + 1)
         ELSE FindAllFrom(t, i + 1)

\* strings.TrimPrefix and strings.TrimSuffix.
TrimPrefix(t, pre) ==
    IF Len(t) >= Len(pre) /\ SubSeq(t, 1, Len(pre)) = pre
    THEN SubSeq(t, Len(pre) + 1, Len(t)) ELSE t
TrimSuffix(t, suf) ==
    IF Len(t) >= Len(suf) /\ SubSeq(t, Len(t) - Len(suf) + 1, Len(t)) = suf
    THEN SubSeq(t, 1, Len(t) - Len(suf)) ELSE t

\* Mutant of stripVarSubExpression: the closing parenthesis is kept.
stripPrefixOnly(expression) == TrimPrefix(expression, <<"$", "(">>)

stripVarSubExpression(expression) ==
    TrimSuffix(TrimPrefix(expression, <<"$", "(">>), <<")">>)

\* A Go slice of strings: nil, or the items.
NilSlice == [isNil |-> TRUE, items |-> <<>>]

\* validateString was not called yet.
MatchPending == [isNil |-> FALSE, items |-> <<<<"pending">>>>]

\* validateString: nil when nothing matches, else the stripped matches.
validateString(value) ==
    LET expressions == FindAllFrom(value, 1) IN
    IF expressions = <<>> THEN NilSlice
    ELSE [isNil |-> FALSE,
          items |-> [k \in 1..Len(expressions) |->
                        stripVarSubExpression(expressions[k])]]

\* The string a text spells from position i on.
RECURSIVE StrFrom(_, _)
StrFrom(t, i) == IF i > Len(t) THEN "" ELSE t[i] \o StrFrom(t, i + 1)

\* The string a text spells.
Str(t) == StrFrom(t, 1)

\* The first position from i on that holds c, Len(t) + 1 when none does.
RECURSIVE IndexFrom(_, _, _)
IndexFrom(t, i, c) ==
    IF i > Len(t) \/ t[i] = c THEN i ELSE IndexFrom(t, i + 1, c)

\* t from position i on, split at every sep.
RECURSIVE SplitFrom(_, _, _)
SplitFrom(t, i, sep) ==
    LET j == IndexFrom(t, i, sep) IN
    IF j > Len(t) THEN <<SubSeq(t, i, Len(t))>>
    ELSE <<SubSeq(t, i, j - 1)>> \o SplitFrom(t, j + 1, sep)

\* strings.Split: t split at every sep.
Split(t, sep) == SplitFrom(t, 1, sep)

----------------------------------------------------------------------------
(* Termination-message codec                                               *)

\* MessageLengthError: the error of a termination message beyond the
\* length the platform reads back.
errTooLong ==
    "Termination message is above max allowed size 4096, caused by large task result."
MaxTerminationMessageLength == 4096

\* A text of n bytes.
RECURSIVE Rep(_)
Rep(n) ==
    IF n <= 0 THEN ""
    ELSE IF n % 2 = 0 THEN LET h == Rep(n \div 2) IN h \o h
    ELSE "x" \o Rep(n - 1)

\* The payload is a sequence of key/value entries: the exit code, the
\* reason, the message, then the captured results in their order.
Field(key, value) == [key |-> key, value |-> value]
OutcomeFields(o) ==
    <<Field("ExitCode", ToString(o.exitCode)),
      Field("Reason", o.reason),
      Field("Message", o.message)>>
    \o [k \in 1..Len(o.results) |-> Field(o.results[k][1], o.results[k][2])]

\* The bytes a payload takes.
RECURSIVE EncodedSize(_)
EncodedSize(fields) ==
    IF fields = <<>> THEN 0
    ELSE Len(Head(fields).key) + Len(Head(fields).value) + EncodedSize(Tail(fields))

\* Mutant of Encode: an oversize outcome loses results from the end until
\* the payload fits, and is returned as a success.
RECURSIVE EncodeTruncating(_)
EncodeTruncating(o) ==
    IF EncodedSize(OutcomeFields(o)) > MaxTerminationMessageLength /\ o.results # <<>>
    THEN EncodeTruncating([o EXCEPT !.results = SubSeq(@, 1, Len(@) - 1)])
    ELSE [err |-> "", payload |-> OutcomeFields(o)]

\* Encode: the payload, or the length error when it would exceed the
\* ceiling (err is "" on success).
Encode(o) ==
    LET fields == OutcomeFields(o) IN
    IF EncodedSize(fields) > MaxTerminationMessageLength
    THEN [err |-> errTooLong, payload |-> <<>>]
    ELSE [err |-> "", payload |-> fields]

\* What a consumer reads back from a payload.
Decode(payload) ==
    [exitCode |-> CHOOSE c \in 0..255 : ToString(c) = payload[1].value,
     reason |-> payload[2].value,
     results |-> [k \in 1..(Len(payload) - 3) |->
                     <<payload[k + 3].key, payload[k + 3].value>>],
     message |-> payload[3].value]

----------------------------------------------------------------------------
(* The unit at run time                                                    *)

VARIABLES
    cfg,          \* Builder options and feature flags
    taskRun,      \* the request (TaskRun): name and annotations
    taskSpec,     \* the TaskSpec of the request
    params,       \* parameter name -> value, as substituted into the steps
    buildFail,    \* the stage at which a collaborator of Build fails
    phase,        \* "new", "running" (unit created) or "buildFailed"
    pod,          \* the UnitDescriptor Build returned
    st,           \* position -> state of the step's wrapper
    ended,        \* position -> "" | "exit" | "timeout" | "signal"
    real,         \* position -> {} or {exit code of the real command}
    outcome,      \* position -> StepOutcome (reason "" while none)
    exit,         \* position -> {} or {exit code the platform sees}
    markers,      \* the completion markers that exist
    timer,        \* position -> "off" | "armed" | "expired" | "stopped"
    cancelled,    \* the unit was deleted
    resultFiles,  \* result name -> sequence of the values written to it
    writer,       \* result name -> positions of the steps that wrote it
    seen,         \* position -> the <<result, value>> pairs its command read
    sidecarUp,    \* positions of the sidecar containers that have started
    pipelineTask, \* the pipeline task whose TaskRun is the request (0: none)
    finished,     \* pipeline task name -> the status of its completed TaskRun
    codecIn,      \* the StepOutcome handed to Encode
    codecOut,     \* what Encode returned for it ("pending" before the call)
    matchIn,      \* the text handed to validateString
    matchOut,     \* what validateString returned for it
    once,         \* the sync.Once of the recorder singleton has run
    recorderPtr,  \* the singleton r: index into recorders, 0 for nil
    recorderErr,  \* the error kept with the singleton ("" for nil)
    recorders,    \* the Recorder objects allocated so far
    lastCall      \* the last recording call: operation, Recorder, error

unitVars == <<st, ended, real, outcome, exit, markers, timer, cancelled,
              resultFiles, writer, seen, sidecarUp>>
pipeVars == <<pipelineTask, finished>>
reqVars == <<cfg, taskRun, taskSpec, params, buildFail, pipeVars>>
codecVars == <<codecIn, codecOut>>
matchVars == <<matchIn, matchOut>>
metricsVars == <<once, recorderPtr, recorderErr, recorders, lastCall>>
vars == <<reqVars, phase, pod, unitVars, codecVars, matchVars, metricsVars>>

\* No recording call was made yet.
NoCall == [op |-> "", recorder |-> 0, err |-> ""]

\* The package pipelinerunmetrics as the process starts: the singleton is
\* not created, no Recorder is allocated.
NoMetrics ==
    /\ once = FALSE
    /\ recorderPtr = 0
    /\ recorderErr = ""
    /\ recorders = <<>>
    /\ lastCall = NoCall

CodecPending == [err |-> "pending", payload |-> <<>>]
NoOutcome == [exitCode |-> 0, reason |-> "", results |-> <<>>, message |-> ""]

\* The positions of the step containers of the unit: those the TaskSpec's
\* steps became (sidecars follow them).
StepPositions == 1..Len(taskSpec.steps)

DeclaredResults == {taskSpec.results[k] : k \in 1..Len(taskSpec.results)}

\* The state of a freshly created unit of n steps, given the results the
\* TaskSpec declares: every wrapper is Waiting.
FreshUnitState(n, declared) ==
    [st |-> [p \in 1..n |-> Waiting],
     ended |-> [p \in 1..n |-> ""],
     real |-> [p \in 1..n |-> {}],
     outcome |-> [p \in 1..n |-> NoOutcome],
     exit |-> [p \in 1..n |-> {}],
     markers |-> {},
     timer |-> [p \in 1..n |-> "off"],
     cancelled |-> FALSE,
     resultFiles |-> [r \in declared |-> <<>>],
     writer |-> [r \in declared |-> {}],
     seen |-> [p \in 1..n |-> {}],
     sidecarUp |-> {}]

FreshUnit(n) ==
    LET f == FreshUnitState(n, DeclaredResults) IN
    /\ st = f.st
    /\ ended = f.ended
    /\ real = f.real
    /\ outcome = f.outcome
    /\ exit = f.exit
    /\ markers = f.markers
    /\ timer = f.timer
    /\ cancelled = f.cancelled
    /\ resultFiles = f.resultFiles
    /\ writer = f.writer
    /\ seen = f.seen
    /\ sidecarUp = f.sidecarUp

\* A request with an empty annotation map, no labels and no pod template.
PlainTaskRun(name) ==
    [name |-> name, annotations |-> GoMap(<<>>), labels |-> <<>>,
     affinity |-> NoAffinity]

\* A TaskRun that no pipeline owns.
NoPipeline ==
    /\ pipelineTask = 0
    /\ finished = <<>>

Init ==
    /\ cfg = DefaultConfig
    /\ taskRun = PlainTaskRun("run")
    /\ taskSpec \in {t \in GenericTaskSpecs : WellFormedResults(t.steps, t.results)}
    /\ params = <<>>
    /\ buildFail \in FailStageSet \cup {NoFailure}
    /\ NoPipeline
    /\ phase = "new"
    /\ pod = NoPod
    /\ FreshUnit(Len(taskSpec.steps))
    /\ codecIn = NoOutcome
    /\ codecOut = CodecPending
    /\ matchIn = <<>>
    /\ matchOut = MatchPending
    /\ NoMetrics

\* The reconciler calls Build and, when it succeeds, creates the unit; the
\* platform then starts all its containers.
CreatePod ==
    /\ phase = "new"
    /\ LET b == Build(cfg, taskRun, taskSpec, buildFail) IN
          /\ phase' = IF b.err = NoFailure THEN "running" ELSE "buildFailed"
          /\ pod' = b.pod
          /\ taskRun' = b.taskRun
    /\ UNCHANGED <<cfg, taskSpec, params, buildFail, pipeVars, codecVars, matchVars, metricsVars, unitVars>>

\* The wrapper of the step at position p finds its wait files and executes
\* the real command; it arms the step's timer when the step has a timeout.
StartStep(p) ==
    /\ phase = "running"
    /\ ~cancelled
    /\ st[p] = Waiting
    /\ pod.containers[p].waitFiles \subseteq markers
    /\ st' = [st EXCEPT ![p] = Running]
    /\ timer' = [timer EXCEPT ![p] = IF pod.containers[p].timeout THEN "armed" ELSE "off"]
    /\ UNCHANGED <<reqVars, codecVars, matchVars, metricsVars, phase, pod, sidecarUp,
                   ended, real, outcome,
                   exit, markers, cancelled, resultFiles, writer, seen>>

\* The values the command at position p may write to its result.
WrittenValues(p) ==
    IF pod.containers[p].script.kind = "any"
    THEN ResultValues
    ELSE {pod.containers[p].script.value}

\* The running command at position p writes its result file.
WriteResult(p) ==
    /\ phase = "running"
    /\ st[p] = Running
    /\ LET r == pod.containers[p].script.result IN
          /\ r \in DeclaredResults
          /\ p \notin writer[r]
          /\ \E v \in WrittenValues(p) :
                resultFiles' = [resultFiles EXCEPT ![r] = Append(@, v)]
          /\ writer' = [writer EXCEPT ![r] = @ \cup {p}]
    /\ UNCHANGED <<reqVars, codecVars, matchVars, metricsVars, phase, pod, sidecarUp,
                   st, ended, real,
                   outcome, exit, markers, timer, cancelled, seen>>

\* The running command at position p reads a result file another step
\* produces, when it exists (the results directory is a volume shared by
\* all step containers).
ReadResult(p, r) ==
    /\ phase = "running"
    /\ st[p] = Running
    /\ pod.containers[p].script.kind = "any"
    /\ r \notin Produces(taskSpec.steps, p)
    /\ resultFiles[r] # <<>>
    /\ LET v == resultFiles[r][Len(resultFiles[r])] IN
          /\ <<r, v>> \notin seen[p]
          /\ seen' = [seen EXCEPT ![p] = @ \cup {<<r, v>>}]
    /\ UNCHANGED <<reqVars, codecVars, matchVars, metricsVars, phase, pod, sidecarUp,
                   st, ended, real,
                   outcome, exit, markers, timer, cancelled, resultFiles, writer>>

\* Whether the container at position p runs through the wrapper.
Wrapped(p) == pod.containers[p].command = EntrypointBinary

\* Reason selection of the wrapper. `how` is what ended the command: its
\* own exit ("exit"), the step's timeout ("timeout") or a termination
\* signal from outside ("signal"); c is the real exit code.
ReasonFor(how, c, policy) ==
    CASE how = "signal" -> ExternallyTerminated
      [] how = "timeout" -> TimedOut
      [] c = 0 -> Completed
      [] policy = Continue -> ErroredIgnored
      [] OTHER -> Errored

\* Mutant of WritesMarker: the marker is withheld only after a failed
\* exit under StopAndFail, so a timeout or a termination signal completes
\* the step like a success.
WritesMarkerUnlessErrored(how, c, policy) ==
    ~(how = "exit" /\ c # 0 /\ policy = StopAndFail)

\* Whether the wrapper writes its completion marker.
WritesMarker(how, c, policy) ==
    /\ how # "signal"
    /\ \/ how = "exit" /\ c = 0
       \/ policy = Continue

\* The exit code of the wrapper toward the platform.
WrapperExit(how, c, policy) == IF WritesMarker(how, c, policy) THEN 0 ELSE c

\* The declared results of the step at position p whose file exists, in
\* the order the TaskSpec declares them.
RECURSIVE CollectFrom(_, _, _)
CollectFrom(names, wanted, files) ==
    IF names = <<>> THEN <<>>
    ELSE LET n == Head(names)
             rest == CollectFrom(Tail(names), wanted, files)
         IN IF n \in wanted /\ files[n] # <<>>
            THEN <<(<<n, files[n][Len(files[n])]>>)>> \o rest
            ELSE rest
CollectResults(p) ==
    CollectFrom(taskSpec.results, pod.containers[p].results, resultFiles)

\* The outcome, marker, exit code and state of position p once its command
\* has ended as `how` with real exit code c. A container that does not run
\* through the wrapper just exits with the real code.
EndedStep(p, how, c) ==
    LET policy == pod.containers[p].onError
        wrote == Wrapped(p) /\ WritesMarker(how, c, policy)
    IN [st |-> IF (Wrapped(p) /\ wrote) \/ (~Wrapped(p) /\ how = "exit" /\ c = 0)
               THEN Succeeded ELSE Failed,
        outcome |-> IF Wrapped(p)
                    THEN [exitCode |-> c,
                          reason |-> ReasonFor(how, c, policy),
                          results |-> CollectResults(p),
                          message |-> ""]
                    ELSE NoOutcome,
        exit |-> IF Wrapped(p) THEN {WrapperExit(how, c, policy)} ELSE {c},
        markers |-> IF wrote THEN pod.containers[p].postFile ELSE {},
        timer |-> IF timer[p] # "armed" THEN timer[p]
                  ELSE IF how = "timeout" THEN "expired" ELSE "stopped"]

\* The exit codes the command at position p can end with.
RealExitCodes(p) ==
    LET s == pod.containers[p].script IN
    CASE s.kind = "exit" -> {s.code}
      [] s.kind = "check" ->
            {IF s.param \in DOMAIN params /\ params[s.param] = s.value THEN 0 ELSE s.code}
      [] OTHER -> ExitCodes

\* A script body that writes a result does so before it exits.
ScriptDone(p) ==
    LET s == pod.containers[p].script IN
    (s.kind = "exit" /\ s.result \in DeclaredResults) => p \in writer[s.result]

\* The real command at position p exits; its wrapper produces the outcome.
FinishStep(p) ==
    /\ phase = "running"
    /\ st[p] = Running
    /\ ScriptDone(p)
    /\ \E c \in RealExitCodes(p) :
          LET e == EndedStep(p, "exit", c) IN
          /\ st' = [st EXCEPT ![p] = e.st]
          /\ ended' = [ended EXCEPT ![p] = "exit"]
          /\ real' = [real EXCEPT ![p] = {c}]
          /\ outcome' = [outcome EXCEPT ![p] = e.outcome]
          /\ exit' = [exit EXCEPT ![p] = e.exit]
          /\ markers' = markers \cup e.markers
          /\ timer' = [timer EXCEPT ![p] = e.timer]
    /\ UNCHANGED <<reqVars, codecVars, matchVars, metricsVars, phase, pod, sidecarUp,
                   cancelled,
                   resultFiles, writer, seen>>

\* The timeout of the step at position p elapses while its command runs:
\* the wrapper kills the command.
TimeoutStep(p) ==
    /\ phase = "running"
    /\ st[p] = Running
    /\ timer[p] = "armed"
    /\ \E c \in KilledCodes :
          LET e == EndedStep(p, "timeout", c) IN
          /\ st' = [st EXCEPT ![p] = e.st]
          /\ ended' = [ended EXCEPT ![p] = "timeout"]
          /\ real' = [real EXCEPT ![p] = {c}]
          /\ outcome' = [outcome EXCEPT ![p] = e.outcome]
          /\ exit' = [exit EXCEPT ![p] = e.exit]
          /\ markers' = markers \cup e.markers
          /\ timer' = [timer EXCEPT ![p] = e.timer]
    /\ UNCHANGED <<reqVars, codecVars, matchVars, metricsVars, phase, pod, sidecarUp,
                   cancelled,
                   resultFiles, writer, seen>>

\* The unit is deleted: every wrapper receives a termination signal. One
\* whose command is running ends it; one still waiting dies waiting.
Cancel ==
    /\ phase = "running"
    /\ ~cancelled
    /\ cancelled' = TRUE
    /\ \E c \in KilledCodes :
          LET e == [p \in DOMAIN st |-> EndedStep(p, "signal", c)]
              hit == {p \in DOMAIN st : st[p] = Running}
          IN
          /\ st' = [p \in DOMAIN st |-> IF p \in hit THEN e[p].st ELSE st[p]]
          /\ ended' = [p \in DOMAIN st |-> IF p \in hit THEN "signal" ELSE ended[p]]
          /\ real' = [p \in DOMAIN st |-> IF p \in hit THEN {c} ELSE real[p]]
          /\ outcome' = [p \in DOMAIN st |-> IF p \in hit THEN e[p].outcome ELSE outcome[p]]
          /\ exit' = [p \in DOMAIN st |-> IF p \in hit THEN e[p].exit ELSE exit[p]]
          /\ markers' = markers \cup UNION {e[p].markers : p \in hit}
          /\ timer' = [p \in DOMAIN st |-> IF p \in hit THEN e[p].timer ELSE timer[p]]
    /\ UNCHANGED <<reqVars, codecVars, matchVars, metricsVars, phase, pod, sidecarUp,
                   resultFiles, writer, seen>>

\* The platform starts the container at position q, a sidecar: like every
\* container it is started with the unit, and it runs its command as soon
\* as the files it waits for, if any, exist.
StartSidecar(q) ==
    /\ phase = "running"
    /\ ~cancelled
    /\ q \in (Len(taskSpec.steps) + 1)..Len(pod.containers)
    /\ q \notin sidecarUp
    /\ pod.containers[q].waitFiles \subseteq markers
    /\ sidecarUp' = sidecarUp \cup {q}
    /\ UNCHANGED <<reqVars, codecVars, matchVars, metricsVars, phase, pod, st, ended,
                   real, outcome, exit, markers, timer, cancelled, resultFiles,
                   writer, seen>>

Next ==
    \/ CreatePod
    \/ \E q \in 1..Len(pod.containers) : StartSidecar(q)
    \/ \E p \in DOMAIN st : StartStep(p)
    \/ \E p \in DOMAIN st : WriteResult(p)
    \/ \E p \in DOMAIN st, r \in DOMAIN resultFiles : ReadResult(p, r)
    \/ \E p \in DOMAIN st : FinishStep(p)
    \/ \E p \in DOMAIN st : TimeoutStep(p)
    \/ Cancel

Spec == Init /\ [][Next]_vars

----------------------------------------------------------------------------
(* Properties of the ordering protocol                                     *)

NSteps == Len(taskSpec.steps)
Policy(p) == PolicyOf(taskSpec.steps[p].onError)
Marker(p) == MarkerOf(p - 1)
HasMarker(p) == Marker(p) \in markers

\* C1: a step with index i > 0 has left Waiting only if the completion
\* marker of step i-1 exists; step 0 may start without any marker.
C1_StartOnlyAfterPredecessorMarker ==
    phase = "running" =>
        \A p \in 1..NSteps : (p > 1 /\ st[p] # Waiting) => HasMarker(p - 1)

C1_Witness ==
    /\ phase = "running"
    /\ NSteps >= 3
    /\ st[1] = Succeeded
    /\ st[2] = Running
    /\ st[3] = Waiting

\* C2: a step with the default policy whose real command exits non-zero
\* has reason Errored, its wrapper exits with the real code, its marker
\* does not exist and every step after it is Waiting.
C2_StopAndFailBlocksSuccessors ==
    \A p \in 1..NSteps :
        (ended[p] = "exit" /\ real[p] # {0} /\ Policy(p) = StopAndFail) =>
            /\ outcome[p].reason = Errored
            /\ exit[p] = real[p]
            /\ ~HasMarker(p)
            /\ \A q \in 1..NSteps : q > p => st[q] = Waiting

C2_Witness ==
    /\ NSteps >= 3
    /\ ended[2] = "exit"
    /\ real[2] = {11}
    /\ Policy(2) = StopAndFail
    /\ Policy(3) = Continue
    /\ cancelled

\* C3: a step with onError = Continue whose real command exits non-zero
\* has reason ErroredIgnored and the real code in its outcome, its marker
\* exists, so the wait condition of the next step is satisfied, and the
\* platform sees exit code 0.
C3_ContinueUnblocksSuccessor ==
    \A p \in 1..NSteps :
        (ended[p] = "exit" /\ real[p] # {0} /\ Policy(p) = Continue) =>
            /\ outcome[p].reason = ErroredIgnored
            /\ {outcome[p].exitCode} = real[p]
            /\ HasMarker(p)
            /\ p < NSteps => pod.containers[p + 1].waitFiles \subseteq markers
            /\ exit[p] = {0}

C3_Witness ==
    /\ NSteps >= 2
    /\ ended[1] = "exit"
    /\ real[1] = {11}
    /\ Policy(1) = Continue
    /\ st[2] = Running

\* What the deletion of the unit does to the wrappers, as a step of the
\* unit: every wrapper whose command was running ends ExternallyTerminated
\* without a marker.
CancelStepEffect ==
    (~cancelled /\ cancelled') =>
        \A p \in 1..NSteps :
            st[p] = Running =>
                /\ ended'[p] = "signal"
                /\ outcome'[p].reason = ExternallyTerminated
                /\ Marker(p) \notin markers'

\* After the deletion no step goes from Waiting to Running.
NoStartAfterCancel ==
    cancelled => \A p \in 1..NSteps : st[p] = Waiting => st'[p] # Running

\* A terminated wrapper is Failed with reason ExternallyTerminated and has
\* no marker, whatever its policy; no command runs in a deleted unit.
CancelledUnit ==
    /\ cancelled => \A p \in 1..NSteps : st[p] # Running
    /\ \A p \in 1..NSteps :
          ended[p] = "signal" =>
              /\ cancelled
              /\ st[p] = Failed
              /\ outcome[p].reason = ExternallyTerminated
              /\ ~HasMarker(p)

\* C4: when the unit is deleted, at any point, a wrapper whose command is
\* running ends with reason ExternallyTerminated and writes no marker, and
\* afterwards no step goes from Waiting to Running, whatever its policy.
C4_CancellationStopsTheUnit ==
    /\ []CancelledUnit
    /\ [][CancelStepEffect /\ NoStartAfterCancel]_vars

C4_Witness ==
    /\ NSteps >= 3
    /\ cancelled
    /\ st[1] = Succeeded
    /\ ended[2] = "signal"
    /\ Policy(2) = Continue
    /\ st[3] = Waiting

\* A step whose timeout elapsed has reason TimedOut; under StopAndFail it
\* is as after a failed exit (no marker, non-zero exit code, every later
\* step Waiting), under Continue its marker exists.
TimedOutStep ==
    \A p \in 1..NSteps :
        ended[p] = "timeout" =>
            /\ outcome[p].reason = TimedOut
            /\ Policy(p) = StopAndFail =>
                  /\ ~HasMarker(p)
                  /\ exit[p] # {} /\ 0 \notin exit[p]
                  /\ \A q \in 1..NSteps : q > p => st[q] = Waiting
            /\ Policy(p) = Continue => HasMarker(p)

\* The timer of a step expires without changing the timer of another.
TimersAreLocal ==
    \A p \in 1..NSteps :
        (timer[p] # "expired" /\ timer'[p] = "expired") =>
            \A q \in 1..NSteps : q # p => timer'[q] = timer[q]

\* C5: a step whose timeout elapses while its command runs ends TimedOut;
\* under StopAndFail it is handled like a failed exit, the successor is
\* unblocked only under Continue, and no other step's timer is affected.
C5_TimeoutFollowsPolicy ==
    /\ []TimedOutStep
    /\ [][TimersAreLocal]_vars

C5_Witness ==
    /\ NSteps >= 3
    /\ ended[1] = "timeout"
    /\ Policy(1) = Continue
    /\ st[2] = Running
    /\ timer[2] = "armed"
    /\ ~cancelled

\* C8 as stated: the completion marker of step i exists if and only if
\* step i has reached a terminal state.
C8_MarkerIffTerminal ==
    \A p \in 1..NSteps : HasMarker(p) <=> st[p] \in Terminal

\* C8: the completion marker of step i exists only if step i has reached
\* a terminal state, and a terminal step has its marker exactly when its
\* wrapper exited 0 toward the platform (the command succeeded, or its
\* failure was ignored under Continue).
C8_MarkerIffTerminalSuccess ==
    \A p \in 1..NSteps :
        /\ HasMarker(p) => st[p] \in Terminal
        /\ st[p] \in Terminal => (HasMarker(p) <=> exit[p] = {0})

C8_Witness ==
    /\ NSteps >= 2
    /\ st[1] = Succeeded /\ HasMarker(1) /\ outcome[1].reason = ErroredIgnored
    /\ st[2] = Failed /\ ~HasMarker(2) /\ outcome[2].reason = Errored

\* The step that produces result r.
Producer(r) == CHOOSE p \in 1..NSteps : r \in Produces(taskSpec.steps, p)

\* A result file is written at most once and by its producing step only;
\* a value is observed, by the command of another step or in a StepOutcome,
\* only once the producing step is terminal.
ResultsWrittenOnceAndGated ==
    /\ \A r \in DeclaredResults :
          /\ Len(resultFiles[r]) <= 1
          /\ writer[r] \subseteq {Producer(r)}
    /\ \A p \in 1..NSteps :
          /\ \A o \in seen[p] : st[Producer(o[1])] \in Terminal
          /\ outcome[p].results # <<>> =>
                /\ st[p] \in Terminal
                /\ \A k \in 1..Len(outcome[p].results) :
                      /\ Producer(outcome[p].results[k][1]) = p
                      /\ resultFiles[outcome[p].results[k][1]]
                            = <<outcome[p].results[k][2]>>

\* A result file that exists keeps its value.
ResultsAreReadOnly ==
    \A r \in DeclaredResults :
        resultFiles[r] # <<>> => resultFiles'[r] = resultFiles[r]

\* C9: each declared Result is written at most once and only by its
\* producing step, its value never changes afterwards, and no consumer
\* observes it before the producing step has reached a terminal state.
C9_ResultsWriteOnceAndGated ==
    /\ []ResultsWrittenOnceAndGated
    /\ [][ResultsAreReadOnly]_vars

C9_Witness ==
    /\ NSteps >= 3
    /\ "r" \in Produces(taskSpec.steps, 2)
    /\ outcome[2].results = <<(<<"r", "v">>)>>
    /\ seen[3] = {<<"r", "v">>}

\* C10: when Build succeeds for a TaskSpec with N steps, the first N
\* containers of the unit are the steps in TaskSpec order, each run through
\* the wrapper; step 0 has no wait-target and step i > 0 waits for exactly
\* the completion marker of step i-1.
C10_StepContainersInOrder ==
    phase = "running" =>
        /\ Len(pod.containers) >= NSteps
        /\ \A p \in 1..NSteps :
              LET c == pod.containers[p] IN
              /\ c.command = EntrypointBinary
              /\ c.script = taskSpec.steps[p].script
              /\ c.onError = Policy(p)
              /\ c.timeout = taskSpec.steps[p].timeout
              /\ c.name = StepName(taskSpec.steps[p].name, p - 1)
              /\ c.waitFiles = IF p = 1 THEN {} ELSE {Marker(p - 1)}

C10_Witness ==
    /\ phase = "running"
    /\ NSteps = 3
    /\ Len(pod.containers) = 4
    /\ Policy(1) # Policy(2)
    /\ taskSpec.steps[2].timeout # taskSpec.steps[3].timeout

----------------------------------------------------------------------------
(* The codec applied to StepOutcomes                                       *)

\* Bound: the captured results of an outcome handed to Encode.
MaxCodecResults == 2

CodecResultNames == {"a", "b"}
CodecResultValues == {"", "123"}
CodecExitCodes == {0, 11, 255}
CodecMessages == {"", "step failed"}

SmallOutcomes ==
    {[exitCode |-> c, reason |-> r, results |-> rs, message |-> m] :
        c \in CodecExitCodes, r \in Reasons, m \in CodecMessages,
        rs \in {<<>>} \cup SeqsUpTo(CodecResultNames \X CodecResultValues,
                                   MaxCodecResults)}

\* o with one more result, large enough for the payload to take n bytes.
Fill(o, n) ==
    [o EXCEPT !.results =
        Append(@, <<"big", Rep(n - EncodedSize(OutcomeFields(o)) - Len("big"))>>)]

\* Payload sizes around the ceiling.
FilledSizes ==
    {MaxTerminationMessageLength, MaxTerminationMessageLength + 1,
     2 * MaxTerminationMessageLength}

CodecOutcomes ==
    SmallOutcomes \cup {Fill(o, n) : o \in SmallOutcomes, n \in FilledSizes}

\* No request and no unit: the state of the other components while the
\* codec alone is exercised.
NoTaskSpec == [steps |-> <<>>, sidecars |-> <<>>, results |-> <<>>]
Idle ==
    /\ cfg = DefaultConfig
    /\ taskRun = PlainTaskRun("")
    /\ taskSpec = NoTaskSpec
    /\ params = <<>>
    /\ buildFail = NoFailure
    /\ NoPipeline
    /\ phase = "none"
    /\ pod = NoPod
    /\ FreshUnit(0)

CodecInit ==
    /\ Idle
    /\ codecIn \in CodecOutcomes
    /\ codecOut = CodecPending
    /\ matchIn = <<>>
    /\ matchOut = MatchPending
    /\ NoMetrics

\* The wrapper emits the outcome through the codec.
EncodeOutcome ==
    /\ codecOut = CodecPending
    /\ codecOut' = Encode(codecIn)
    /\ UNCHANGED <<reqVars, phase, pod, unitVars, codecIn, matchVars, metricsVars>>

CodecNext == EncodeOutcome

CodecSpec == CodecInit /\ [][CodecNext]_vars

\* C7: Encode returns a payload of at most 4096 bytes that carries the
\* exit code, reason, message and all captured results, or it fails with
\* the length error, which comes without payload and is none of the
\* reasons of a step; an oversize outcome is never returned as a success.
C7_EncodeFitsOrFails ==
    codecOut # CodecPending =>
        \/ /\ codecOut.err = ""
           /\ EncodedSize(codecOut.payload) <= 4096
           /\ Decode(codecOut.payload) = codecIn
        \/ /\ codecOut.err = errTooLong
           /\ codecOut.payload = <<>>
           /\ errTooLong \notin Reasons
           /\ EncodedSize(OutcomeFields(codecIn)) > 4096

C7_Witness ==
    /\ codecOut.err = errTooLong
    /\ codecIn.reason = ErroredIgnored
    /\ Len(codecIn.results) = 3
    /\ EncodedSize(OutcomeFields(codecIn)) = 4097

----------------------------------------------------------------------------
(* The pipeline run of the fixture pipelinerun-with-failing-step           *)

\* The text of the value of task2's parameter task1-result.
Task1ResultRef ==
        <<"$", "(", "t", "a", "s", "k", "s", ".", "t", "a", "s", "k", "1",
        ".", "r", "e", "s", "u", "l", "t", "s", ".", "t", "a", "s", "k",
        "1", "-", "r", "e", "s", "u", "l", "t", ")">>

\* spec.pipelineSpec.tasks of the fixture, with the error policy of
\* write-a-result given. write-a-result writes 123 to task1-result, then
\* exits 11; verify-a-task-result has no onError, and its script exits 1
\* unless parameter task1-result is 123.
FixtureTasks(onError) ==
    <<[name |-> "task1", runAfter |-> {}, params |-> <<>>,
       taskSpec |->
          [steps |-> <<MkStep("exit-with-1", Continue, FALSE,
                              ExitScript(1, "", "")),
                       MkStep("write-a-result", onError, FALSE,
                              ExitScript(11, "task1-result", "123"))>>,
           sidecars |-> <<>>,
           results |-> <<"task1-result">>]],
      [name |-> "task2", runAfter |-> {"task1"},
       params |-> <<[name |-> "task1-result", value |-> Task1ResultRef]>>,
       taskSpec |->
          [steps |-> <<MkStep("exit-with-255", Continue, FALSE,
                              ExitScript(255, "", "")),
                       MkStep("verify-a-task-result", "", FALSE,
                              CheckScript("task1-result", "123")),
                       MkStep("exit-with-20", Continue, FALSE,
                              ExitScript(20, "", ""))>>,
           sidecars |-> <<>>,
           results |-> <<>>]]>>

\* Mutant of Fixture: write-a-result has no onError, so the default policy.
FixtureStopAndFail == FixtureTasks("")

\* The fixture: write-a-result has onError: continue.
Fixture == FixtureTasks(Continue)

\* The value of result r among the results a TaskRun reported, as a set
\* (empty when it reported none of that name).
ResultValue(results, r) ==
    {results[k][2] : k \in {j \in 1..Len(results) : results[j][1] = r}}

\* What the reference tasks.<task>.results.<result> stands for, given the
\* finished tasks: a set holding the value, empty when there is none.
ResolveParts(parts, done) ==
    IF /\ Len(parts) = 4
       /\ Str(parts[1]) = "tasks"
       /\ Str(parts[3]) = "results"
       /\ Str(parts[2]) \in DOMAIN done
    THEN ResultValue(done[Str(parts[2])].results, Str(parts[4]))
    ELSE {}
ResolveRef(reference, done) ==
    UNION {ResolveParts(parts, done) :
              parts \in {Split(r, ".") : r \in {reference}}}

\* The text t from position i on with every resolvable reference replaced
\* by its value.
RECURSIVE SubstituteFrom(_, _, _)
SubstituteFrom(t, i, done) ==
    IF i > Len(t) THEN ""
    ELSE LET e == MatchEnd(t, i)
             v == IF e = 0 THEN {}
                  ELSE ResolveRef(stripVarSubExpression(SubSeq(t, i, e)), done)
         IN IF v # {}
            THEN (CHOOSE x \in v : TRUE) \o SubstituteFrom(t, e + 1, done)
            ELSE t[i] \o SubstituteFrom(t, i + 1, done)

\* Whether every reference in the text t has a value.
Resolvable(t, done) ==
    \A refs \in {validateString(t).items} :
        \A k \in 1..Len(refs) : ResolveRef(refs[k], done) # {}

\* The concatenation of the sequences seqs[i], seqs[i + 1], ...
RECURSIVE ConcatFrom(_, _)
ConcatFrom(seqs, i) ==
    IF i > Len(seqs) THEN <<>> ELSE seqs[i] \o ConcatFrom(seqs, i + 1)

\* The status of the TaskRun once its unit is over: per step what its
\* termination message decodes to, the exit codes the platform saw, and
\* the results of all steps.
TaskRunStatus ==
    LET n == Len(taskSpec.steps)
        msg == [p \in 1..n |-> Encode(outcome[p])]
        steps == [p \in 1..n |->
                    IF outcome[p] # NoOutcome /\ msg[p].err = ""
                    THEN Decode(msg[p].payload) ELSE NoOutcome]
    IN [succeeded |-> \A p \in 1..n : exit[p] = {0},
        steps |-> steps,
        exits |-> [p \in 1..n |-> exit[p]],
        results |-> ConcatFrom([p \in 1..n |-> steps[p].results], 1)]

FixtureInit ==
    /\ cfg \in Configs
    /\ taskRun = PlainTaskRun("")
    /\ taskSpec = NoTaskSpec
    /\ params = <<>>
    /\ buildFail = NoFailure
    /\ NoPipeline
    /\ phase = "none"
    /\ pod = NoPod
    /\ FreshUnit(0)
    /\ codecIn = NoOutcome
    /\ codecOut = CodecPending
    /\ matchIn = <<>>
    /\ matchOut = MatchPending
    /\ NoMetrics

\* The pipeline controller creates the TaskRun of task i: the tasks it
\* runs after have succeeded and the references in its parameters have
\* values, which are substituted.
ScheduleTask(i) ==
    LET t == Fixture[i] IN
    /\ phase \in {"none", "done"}
    /\ t.name \notin DOMAIN finished
    /\ \A d \in t.runAfter : d \in DOMAIN finished /\ finished[d].succeeded
    /\ \A k \in 1..Len(t.params) : Resolvable(t.params[k].value, finished)
    /\ pipelineTask' = i
    /\ taskRun' = PlainTaskRun(t.name)
    /\ taskSpec' = t.taskSpec
    /\ params' = [name \in {t.params[k].name : k \in 1..Len(t.params)} |->
                    LET k == CHOOSE j \in 1..Len(t.params) : t.params[j].name = name
                    IN SubstituteFrom(t.params[k].value, 1, finished)]
    /\ phase' = "new"
    /\ pod' = NoPod
    /\ LET f == FreshUnitState(Len(t.taskSpec.steps),
                               {t.taskSpec.results[k] :
                                    k \in 1..Len(t.taskSpec.results)})
       IN /\ st' = f.st
          /\ ended' = f.ended
          /\ real' = f.real
          /\ outcome' = f.outcome
          /\ exit' = f.exit
          /\ markers' = f.markers
          /\ timer' = f.timer
          /\ cancelled' = f.cancelled
          /\ resultFiles' = f.resultFiles
          /\ writer' = f.writer
          /\ seen' = f.seen
          /\ sidecarUp' = f.sidecarUp
    /\ UNCHANGED <<cfg, buildFail, finished, codecVars, matchVars, metricsVars>>

\* No wrapper of the unit will act any more.
UnitOver ==
    \A p \in DOMAIN st :
        \/ st[p] \in Terminal
        \/ st[p] = Waiting /\ \E q \in DOMAIN st : st[q] = Failed

\* The reconciler records the status of the TaskRun whose unit is over.
CompleteTask ==
    /\ phase = "running"
    /\ pipelineTask # 0
    /\ UnitOver
    /\ finished' = (taskRun.name :> TaskRunStatus) @@ finished
    /\ phase' = "done"
    /\ UNCHANGED <<cfg, taskRun, taskSpec, params, buildFail, pipelineTask,
                   pod, unitVars, codecVars, matchVars, metricsVars>>

FixtureNext ==
    \/ \E i \in 1..Len(Fixture) : ScheduleTask(i)
    \/ CreatePod
    \/ \E p \in DOMAIN st : StartStep(p)
    \/ \E p \in DOMAIN st : WriteResult(p)
    \/ \E p \in DOMAIN st : FinishStep(p)
    \/ CompleteTask

\* The controller, the reconciler, the platform and the commands of the
\* fixture all make progress.
FixtureSpec == FixtureInit /\ [][FixtureNext]_vars /\ WF_vars(FixtureNext)

\* Every task of the fixture has completed.
FixtureDone ==
    /\ phase = "done"
    /\ \A i \in 1..Len(Fixture) : Fixture[i].name \in DOMAIN finished

\* Within the running task no step has left Waiting before all steps ahead
\* of it succeeded, and task2 is the request only once task1 has completed.
FixtureStepsInOrder ==
    /\ \A p \in DOMAIN st :
          st[p] # Waiting => \A q \in 1..(p - 1) : st[q] = Succeeded
    /\ pipelineTask = 2 => "task1" \in DOMAIN finished

\* What the fixture expects of the completed tasks.
FixtureExpected ==
    /\ "task1" \in DOMAIN finished =>
          LET t == finished["task1"] IN
          /\ Len(t.steps) = 2
          /\ t.steps[1].reason = ErroredIgnored /\ t.steps[1].exitCode = 1
          /\ t.steps[Len(t.steps)].reason = ErroredIgnored
          /\ t.steps[Len(t.steps)].exitCode = 11
          /\ ResultValue(t.results, "task1-result") = {"123"}
          /\ t.succeeded
    /\ pipelineTask = 2 =>
          /\ "task1-result" \in DOMAIN params
          /\ params["task1-result"] = "123"
    /\ "task2" \in DOMAIN finished =>
          LET t == finished["task2"] IN
          /\ Len(t.steps) = 3
          /\ t.steps[1].reason = ErroredIgnored /\ t.steps[1].exitCode = 255
          /\ t.steps[2].reason = Completed /\ t.steps[2].exitCode = 0
          /\ t.steps[3].reason = ErroredIgnored /\ t.steps[3].exitCode = 20
          /\ t.succeeded

\* C6: in every execution of the fixture the five steps run in order, task1
\* ends ErroredIgnored with exit code 11 recorded from write-a-result, 123
\* is the value of task2's parameter, verify-a-task-result succeeds, both
\* tasks report success to the platform, and both tasks do complete.
C6_FixtureRun ==
    /\ [](FixtureStepsInOrder /\ FixtureExpected)
    /\ <>[]FixtureDone

C6_Witness ==
    /\ FixtureDone
    /\ finished["task1"].steps[2].exitCode = 11
    /\ finished["task2"].steps[2].reason = Completed
    /\ finished["task2"].exits = [p \in 1..3 |-> {0}]

----------------------------------------------------------------------------
(* Build on varied requests, namespaces and TaskSpecs                      *)

\* Bound: the LimitRanges listed in the namespace.
MaxLimitRanges == 3

\* The LimitRanges a namespace may hold: container minimums of 100m and
\* 250m CPU, one for two resources, a pod-level minimum, an item without
\* Min, and a LimitRange of two items.
LimitRangeChoices ==
    {<<LimitRangeItem(LimitTypeContainer, "cpu" :> 100)>>,
     <<LimitRangeItem(LimitTypeContainer, "cpu" :> 250)>>,
     <<LimitRangeItem(LimitTypeContainer, "cpu" :> 50 @@ "memory" :> 64)>>,
     <<LimitRangeItem(LimitTypePod, "cpu" :> 500)>>,
     <<LimitRangeItem(LimitTypeContainer, <<>>)>>,
     <<LimitRangeItem(LimitTypeContainer, "memory" :> 128),
       LimitRangeItem(LimitTypeContainer, "cpu" :> 100)>>}
LimitRangeLists == {<<>>} \cup SeqsUpTo(LimitRangeChoices, MaxLimitRanges)

\* A step run by command, without result.
PlainStep == MkStep("", "", FALSE, AnyScript(""))
TaskSpecOf(steps, sidecars) == [steps |-> steps, sidecars |-> sidecars, results |-> <<>>]

\* The request is new: Build was not called, there is no unit.
NotBuilt ==
    /\ params = <<>>
    /\ NoPipeline
    /\ phase = "new"
    /\ pod = NoPod
    /\ FreshUnit(Len(taskSpec.steps))
    /\ codecIn = NoOutcome
    /\ codecOut = CodecPending
    /\ matchIn = <<>>
    /\ matchOut = MatchPending
    /\ NoMetrics

\* Namespaces with varied LimitRanges, whose listing may fail.
LimitRangeRequests ==
    /\ cfg \in {[DefaultConfig EXCEPT !.limitRanges = l] : l \in LimitRangeLists}
    /\ taskRun = PlainTaskRun("run")
    /\ taskSpec \in {TaskSpecOf(<<PlainStep>>, <<>>),
                     TaskSpecOf(<<PlainStep, PlainStep>>, <<MkSidecar("sc")>>)}
    /\ buildFail \in {NoFailure, "getLimitRangeMinimum"}

\* Steps that request resources, in namespaces with a floor: requests
\* absent, below, at and above the floors, with and without a limit.
WithResources(step, requests, limits) ==
    [step EXCEPT !.resources = [requests |-> requests, limits |-> limits]]
ResourceSteps ==
    {WithResources(PlainStep, r, l) :
        r \in {<<>>, "cpu" :> 50, "cpu" :> 300, "cpu" :> 250 @@ "memory" :> 32},
        l \in {<<>>, "cpu" :> 400}}
ResourceRequests ==
    /\ cfg \in {[DefaultConfig EXCEPT !.limitRanges = l] :
                   l \in {<<>>,
                          <<<<LimitRangeItem(LimitTypeContainer, "cpu" :> 250)>>>>,
                          <<<<LimitRangeItem(LimitTypeContainer, "cpu" :> 100)>>,
                            <<LimitRangeItem(LimitTypeContainer, "cpu" :> 250)>>>>,
                          <<<<LimitRangeItem(LimitTypeContainer,
                                             "cpu" :> 50 @@ "memory" :> 64)>>>>}}
    /\ taskRun = PlainTaskRun("run")
    /\ taskSpec \in {TaskSpecOf(s, <<>>) : s \in SeqsUpTo(ResourceSteps, 2)}
    /\ buildFail = NoFailure

\* Requests with and without the Affinity Assistant annotation (one with
\* an empty value), with and without an affinity in the pod template.
UserAffinities ==
    {NoAffinity,
     [nodeAffinity |-> "zone-a", podAffinity |-> <<>>],
     [nodeAffinity |-> "", podAffinity |-> <<PodAffinityTerm("app" :> "db", "zone")>>],
     [nodeAffinity |-> "zone-a",
      podAffinity |-> <<PodAffinityTerm("app" :> "db", "zone")>>]}
AffinityRequests ==
    /\ cfg = DefaultConfig
    /\ taskRun \in
          {[PlainTaskRun("run") EXCEPT !.annotations = GoMap(a), !.affinity = u] :
              a \in {<<>>,
                     AnnotationAffinityAssistantName :> "",
                     AnnotationAffinityAssistantName :> "assistant-1",
                     AnnotationAffinityAssistantName :> "assistant-2" @@ "owner" :> "team"},
              u \in UserAffinities}
    /\ taskSpec \in {TaskSpecOf(<<PlainStep>>, <<>>),
                     TaskSpecOf(<<PlainStep>>, <<MkSidecar("sc")>>)}
    /\ buildFail = NoFailure

\* Steps and sidecars with their own mounts: none, at an implicit path
\* written differently (/workspace/, /tekton/results/., /tekton/x/../home),
\* and below an implicit path (/workspace/src).
UserMounts ==
    {<<>>,
     <<VolumeMount("data", <<"workspace", "">>)>>,
     <<VolumeMount("out", <<"tekton", "results", ".">>)>>,
     <<VolumeMount("me", <<"tekton", "x", "..", "home">>)>>,
     <<VolumeMount("src", <<"workspace", "src">>)>>,
     <<VolumeMount("meta", <<"tekton", "steps">>),
       VolumeMount("data", <<"", "workspace">>)>>}
MountSteps == {[PlainStep EXCEPT !.volumeMounts = m] : m \in UserMounts}
MountSidecars ==
    {<<>>,
     <<MkSidecar("sc")>>,
     <<[MkSidecar("sc") EXCEPT
           !.volumeMounts = <<VolumeMount("data", <<"workspace">>)>>]>>}
MountRequests ==
    /\ cfg = DefaultConfig
    /\ taskRun = PlainTaskRun("run")
    /\ taskSpec \in {TaskSpecOf(s, sc) : s \in SeqsUpTo(MountSteps, 2),
                                        sc \in MountSidecars}
    /\ buildFail = NoFailure

\* Steps with their own variables, among them HOME and the name of the
\* hermetic flag, under every configuration, for requests with and without
\* the execution-mode annotation.
UserEnvs ==
    {<<>>,
     <<EnvVar("HOME", "/root")>>,
     <<EnvVar(TektonHermeticEnvVar, "0"), EnvVar("A", "1")>>,
     <<EnvVar("A", "1"), EnvVar("HOME", "/me"), EnvVar("B", "2")>>}
EnvSteps == {[PlainStep EXCEPT !.env = e] : e \in UserEnvs}
EnvRequests ==
    /\ cfg \in Configs
    /\ taskRun \in
          {[PlainTaskRun("run") EXCEPT !.annotations = GoMap(a)] :
              a \in {<<>>,
                     ExecutionModeAnnotation :> ExecutionModeHermetic,
                     ExecutionModeAnnotation :> "sandboxed"}}
    /\ taskSpec \in {TaskSpecOf(s, <<>>) : s \in SeqsUpTo(EnvSteps, 2)}
    /\ buildFail = NoFailure

\* Requests of which one stage of Build fails, or none; the TaskRun may
\* have no annotation map at all.
FailingRequests ==
    /\ cfg \in Configs
    /\ taskRun \in {PlainTaskRun("run"),
                    [PlainTaskRun("run") EXCEPT !.annotations = NilMap]}
    /\ taskSpec \in {TaskSpecOf(<<PlainStep>>, <<>>),
                     TaskSpecOf(<<PlainStep, PlainStep>>, <<MkSidecar("sc")>>)}
    /\ buildFail \in FailStageSet \cup {NoFailure}

\* TaskRuns with labels of their own, among them the TaskRun label with
\* another value.
UserLabels ==
    {<<>>,
     "app" :> "x",
     TaskRunLabelKey :> "spoofed",
     TaskRunLabelKey :> "spoofed" @@ "app" :> "x" @@ "team" :> "ci"}
LabelRequests ==
    /\ cfg = DefaultConfig
    /\ taskRun \in {[PlainTaskRun(n) EXCEPT !.labels = l] :
                       n \in {"run", "other-run"}, l \in UserLabels}
    /\ taskSpec \in {TaskSpecOf(<<PlainStep>>, <<>>),
                     TaskSpecOf(<<PlainStep>>, <<MkSidecar("sc")>>)}
    /\ buildFail = NoFailure

\* Clusters with and without injected sidecars, TaskSpecs with and
\* without sidecars, TaskRuns whose annotations do or do not hold the ready
\* annotation already.
ReadyRequests ==
    /\ cfg \in {[DefaultConfig EXCEPT !.runningInEnvWithInjectedSidecars = b] :
                   b \in BOOLEAN}
    /\ taskRun \in
          {[PlainTaskRun("run") EXCEPT !.annotations = GoMap(a)] :
              a \in {<<>>,
                     "owner" :> "team",
                     readyAnnotation :> readyAnnotationValue,
                     readyAnnotation :> "no" @@ "owner" :> "team"}}
    /\ taskSpec \in {TaskSpecOf(<<PlainStep>>, sc) :
                        sc \in {<<>>, <<MkSidecar("sc")>>,
                                <<MkSidecar("sc"), MkSidecar("proxy")>>}}
    /\ buildFail = NoFailure

\* Steps and sidecars run by command or by script body, steps with and
\* without a working directory, below the workspace root or not.
InitSteps ==
    {[MkStep("", "", FALSE, sc) EXCEPT !.workingDir = w] :
        sc \in {AnyScript(""), ExitScript(0, "", "")},
        w \in {"", "/workspace", "/workspace/src", "src", "/tmp"}}
InitSidecars ==
    {<<>>,
     <<MkSidecar("sc")>>,
     <<[MkSidecar("sc") EXCEPT !.script = ExitScript(0, "", "")]>>}
InitRequests ==
    /\ cfg \in Configs
    /\ taskRun = PlainTaskRun("run")
    /\ taskSpec \in {TaskSpecOf(st1, sc) : st1 \in SeqsUpTo(InitSteps, 2),
                                          sc \in InitSidecars}
    /\ buildFail = NoFailure

AssemblyInit ==
    /\ \/ LimitRangeRequests
       \/ ResourceRequests
       \/ AffinityRequests
       \/ MountRequests
       \/ EnvRequests
       \/ FailingRequests
       \/ LabelRequests
       \/ ReadyRequests
       \/ InitRequests
    /\ NotBuilt

AssemblyNext == CreatePod

AssemblySpec == AssemblyInit /\ [][AssemblyNext]_vars

\* The container-level minimums declared for resource k.
ContainerMinimums(limitRanges, k) ==
    {limitRanges[i][j].min[k] :
        <<i, j>> \in {x \in (1..Len(limitRanges)) \X (1..2) :
                        /\ x[2] <= Len(limitRanges[x[1]])
                        /\ limitRanges[x[1]][x[2]].type = LimitTypeContainer
                        /\ k \in DOMAIN limitRanges[x[1]][x[2]].min}}

MaxOf(S) == CHOOSE m \in S : \A x \in S : x <= m

\* seq in every order.
Reorderings(seq) ==
    {[i \in 1..Len(seq) |-> seq[f[i]]] :
        f \in {g \in [1..Len(seq) -> 1..Len(seq)] :
                 \A a, b \in 1..Len(seq) : g[a] = g[b] => a = b}}

\* C11: getLimitRangeMinimum gives, for every resource name, the largest
\* container minimum declared for it in the namespace (zero when none is
\* declared), whatever the order in which the LimitRanges are listed; when
\* the listing fails, Build has failed once it returns, and left no pod.
C11_FloorIsMaxOfMinimums ==
    /\ LET floor == getLimitRangeMinimum(cfg.limitRanges) IN
          /\ DOMAIN floor = ResourceNames
          /\ \A k \in ResourceNames :
                floor[k] = MaxOf({0} \cup ContainerMinimums(cfg.limitRanges, k))
          /\ \A other \in Reorderings(cfg.limitRanges) :
                getLimitRangeMinimum(other) = floor
    /\ (buildFail = "getLimitRangeMinimum" /\ phase # "new") =>
          /\ phase = "buildFailed"
          /\ pod = NoPod

C11_Witness ==
    /\ phase = "running"
    /\ Len(cfg.limitRanges) = 3
    /\ cfg.limitRanges[1][1].min = ("cpu" :> 250)
    /\ cfg.limitRanges[2][1].type = LimitTypePod
    /\ cfg.limitRanges[3][1].min = ("cpu" :> 100)
    /\ getLimitRangeMinimum(cfg.limitRanges)["cpu"] = 250

C13_AffinityFromOneSource ==
    phase = "running" =>
        LET name == Lookup(taskRun.annotations, AnnotationAffinityAssistantName) IN
        IF name # ""
        THEN /\ pod.affinity.nodeAffinity = ""
             /\ pod.affinity.podAffinity =
                   <<[matchLabels |-> (LabelInstance :> name @@
                                       LabelComponent :> ComponentNameAffinityAssistant),
                      topologyKey |-> "kubernetes.io/hostname"]>>
             /\ \A i \in 1..Len(taskRun.affinity.podAffinity) :
                   \A j \in 1..Len(pod.affinity.podAffinity) :
                      pod.affinity.podAffinity[j] # taskRun.affinity.podAffinity[i]
        ELSE pod.affinity = taskRun.affinity

C13_Witness ==
    /\ phase = "running"
    /\ Lookup(taskRun.annotations, AnnotationAffinityAssistantName) = "assistant-1"
    /\ taskRun.affinity.nodeAffinity = "zone-a"
    /\ Len(taskRun.affinity.podAffinity) = 1
    /\ Len(pod.affinity.podAffinity) = 1
    /\ pod.affinity.podAffinity[1].matchLabels[LabelInstance] = "assistant-1"

\* The container carries the implicit mount imp.
Carries(container, imp) ==
    \E k \in 1..Len(container.volumeMounts) : container.volumeMounts[k] = imp

\* The declaration (a step or a sidecar of the TaskSpec) mounts something
\* at the path of imp, paths compared after normalization.
Declares(declaration, imp) ==
    \E k \in 1..Len(declaration.volumeMounts) :
        Clean(declaration.volumeMounts[k].mountPath) = Clean(imp.mountPath)

\* The four implicit mounts.
ImplicitMounts == {implicitVolumeMounts[k] : k \in 1..Len(implicitVolumeMounts)}

\* The declaration from which the q-th container of the pod was built:
\* the steps come first, then the sidecars.
DeclarationOf(q) ==
    IF q <= Len(taskSpec.steps) THEN taskSpec.steps[q]
    ELSE taskSpec.sidecars[q - Len(taskSpec.steps)]

\* C14 as stated: every container of the pod, step or sidecar, carries
\* each implicit mount exactly when its declaration mounts nothing at the
\* same normalized path.
C14_AsStated ==
    phase = "running" =>
        \A q \in 1..Len(pod.containers) : \A imp \in ImplicitMounts :
            Carries(pod.containers[q], imp) <=> ~Declares(DeclarationOf(q), imp)

\* C14, amended: every step container of the pod carries each implicit
\* mount exactly when the step mounts nothing at the same normalized path;
\* a sidecar is given no implicit mount, its mounts are the declared ones.
C14_ImplicitMountsOnSteps ==
    phase = "running" =>
        /\ Len(pod.containers) = Len(taskSpec.steps) + Len(taskSpec.sidecars)
        /\ \A q \in 1..Len(taskSpec.steps) : \A imp \in ImplicitMounts :
              Carries(pod.containers[q], imp) <=> ~Declares(taskSpec.steps[q], imp)
        /\ \A q \in 1..Len(taskSpec.sidecars) :
              pod.containers[Len(taskSpec.steps) + q].volumeMounts =
                  taskSpec.sidecars[q].volumeMounts

\* A step that mounts /tekton/x/../home has no implicit home mount and
\* has the three others, next to a sidecar without mounts.
C14_Witness ==
    /\ phase = "running"
    /\ Len(taskSpec.steps) = 2
    /\ Len(taskSpec.sidecars) = 1
    /\ taskSpec.sidecars[1].volumeMounts = <<>>
    /\ taskSpec.steps[1].volumeMounts = <<VolumeMount("me", <<"tekton", "x", "..", "home">>)>>
    /\ taskSpec.steps[2].volumeMounts = <<VolumeMount("src", <<"workspace", "src">>)>>
    /\ ~Carries(pod.containers[1], implicitVolumeMounts[2])
    /\ Carries(pod.containers[1], implicitVolumeMounts[1])
    /\ Carries(pod.containers[2], implicitVolumeMounts[1])
    /\ pod.containers[3].volumeMounts = <<>>

\* The value a container sees for a variable: that of the last entry of
\* the list with the name ("" when there is none).
EffectiveValue(env, name) ==
    LET at == {k \in 1..Len(env) : env[k].name = name}
    IN IF at = {} THEN "" ELSE env[MaxOf(at)].value

\* The environment of a step: HOME first when the Builder overrides it,
\* the step's own variables, the hermetic flag when `hermetic` holds.
ExpectedEnv(step, hermetic) ==
    (IF cfg.overrideHomeEnv THEN <<[name |-> "HOME", value |-> "/tekton/home"]>>
     ELSE <<>>)
    \o step.env
    \o (IF hermetic THEN <<[name |-> "TEKTON_HERMETIC", value |-> "1"]>> ELSE <<>>)

RequestsHermetic ==
    Lookup(taskRun.annotations, ExecutionModeAnnotation) = "hermetic"

\* C15 as stated: the flag is there whenever the request asks for
\* hermetic execution mode.
C15_AsStated ==
    phase = "running" =>
        \A p \in 1..Len(taskSpec.steps) :
            pod.containers[p].env = ExpectedEnv(taskSpec.steps[p], RequestsHermetic)

\* C15, amended: the flag is there when the request asks for hermetic
\* execution mode and the alpha API fields are enabled. The environment is
\* the implicit HOME (if overridden), the user's variables in their order,
\* then the flag; so a HOME of the user is the one in effect, and the flag,
\* when there, is the last entry and the value in effect for its name.
C15_EnvOrder ==
    phase = "running" =>
        \A p \in 1..Len(taskSpec.steps) :
            LET env == pod.containers[p].env
                own == taskSpec.steps[p].env
                flagged == RequestsHermetic /\ cfg.alphaAPIEnabled
            IN /\ env = ExpectedEnv(taskSpec.steps[p], flagged)
               /\ (\E k \in 1..Len(own) : own[k].name = "HOME") =>
                     EffectiveValue(env, "HOME") = EffectiveValue(own, "HOME")
               /\ flagged =>
                     /\ env[Len(env)] = [name |-> "TEKTON_HERMETIC", value |-> "1"]
                     /\ EffectiveValue(env, "TEKTON_HERMETIC") = "1"

\* A hermetic request with the alpha fields on, a step with its own HOME
\* and one with its own TEKTON_HERMETIC.
C15_Witness ==
    /\ phase = "running"
    /\ cfg.overrideHomeEnv
    /\ cfg.alphaAPIEnabled
    /\ RequestsHermetic
    /\ Len(taskSpec.steps) = 2
    /\ taskSpec.steps[1].env = <<EnvVar("A", "1"), EnvVar("HOME", "/me"), EnvVar("B", "2")>>
    /\ taskSpec.steps[2].env = <<EnvVar(TektonHermeticEnvVar, "0"), EnvVar("A", "1")>>
    /\ EffectiveValue(pod.containers[1].env, "HOME") = "/me"
    /\ Len(pod.containers[2].env) = 4
    /\ EffectiveValue(pod.containers[2].env, "TEKTON_HERMETIC") = "1"

\* C16: a call of Build, whether it returns a pod or an error, leaves the
\* caller's TaskRun, its annotation map included, and the TaskSpec as they
\* were before the call.
C16_BuildLeavesRequestUnchanged ==
    [][(phase = "new" /\ phase' # "new") =>
          /\ taskRun' = taskRun
          /\ taskRun'.annotations = taskRun.annotations
          /\ taskSpec' = taskSpec]_vars

\* C17: once Build has returned on a request of which a stage fails
\* (credsInit, MergeStepsWithStepTemplate, resolveEntrypoints,
\* orderContainers, getLimitRangeMinimum, ValidateVolumes, changeset.Get),
\* it has returned an error and there is no pod, not even a partial one;
\* there is a pod only when no stage failed.
C17_NoUnitOnFailure ==
    /\ (buildFail \in FailStageSet /\ phase # "new") =>
          /\ phase = "buildFailed"
          /\ pod = NoPod
    /\ phase = "buildFailed" =>
          /\ pod.initContainers = <<>>
          /\ pod.containers = <<>>
    /\ (phase = "running" \/ pod # NoPod) =>
          /\ buildFail = NoFailure
          /\ phase = "running"
          /\ Len(pod.containers) = Len(taskSpec.steps) + Len(taskSpec.sidecars)

\* Build has failed at the volume validation, after the containers of
\* the pod were all prepared.
C17_Witness ==
    /\ phase = "buildFailed"
    /\ buildFail = "ValidateVolumes"
    /\ Len(taskSpec.steps) = 2
    /\ Len(taskSpec.sidecars) = 1
    /\ pod = NoPod

\* C18: the labels of the pod are the TaskRun's labels and the TaskRun
\* label; the TaskRun label has the name of the TaskRun as value, also
\* when the TaskRun has a label of that key, and every other label has the
\* TaskRun's value.
C18_LabelsIdentifyTheRequest ==
    phase = "running" =>
        /\ DOMAIN pod.labels = DOMAIN taskRun.labels \cup {TaskRunLabelKey}
        /\ pod.labels[TaskRunLabelKey] = taskRun.name
        /\ \A k \in DOMAIN taskRun.labels \ {TaskRunLabelKey} :
              pod.labels[k] = taskRun.labels[k]

C18_Witness ==
    /\ phase = "running"
    /\ taskRun.name = "other-run"
    /\ TaskRunLabelKey \in DOMAIN taskRun.labels
    /\ taskRun.labels[TaskRunLabelKey] = "spoofed"
    /\ "team" \in DOMAIN taskRun.labels
    /\ pod.labels[TaskRunLabelKey] = "other-run"
    /\ pod.labels["team"] = "ci"

\* The pod carries the ready annotation.
CarriesReady == Lookup(pod.annotations, readyAnnotation) = readyAnnotationValue

\* Build is to set the ready annotation: no sidecars, no injecting cluster.
ReadyOnCreate ==
    /\ Len(taskSpec.sidecars) = 0
    /\ ~cfg.runningInEnvWithInjectedSidecars

\* C19 as stated: whatever the annotations of the TaskRun, the pod carries
\* the ready annotation exactly when the TaskSpec has no sidecars and the
\* cluster injects none.
C19_AsStated == phase = "running" => (CarriesReady <=> ReadyOnCreate)

\* C19, amended: Build sets the ready annotation on the pod exactly when
\* the TaskSpec has no sidecars and the cluster injects none; otherwise the
\* pod has the ready annotation only as the TaskRun's annotations had it
\* before the call, with the same value.
C19_ReadySetOnlyWithoutSidecars ==
    [][(phase = "new" /\ phase' = "running") =>
          IF ReadyOnCreate
          THEN Lookup(pod'.annotations, readyAnnotation) = "READY"
          ELSE /\ Lookup(pod'.annotations, readyAnnotation) =
                     Lookup(taskRun.annotations, readyAnnotation)
               /\ readyAnnotation \in DOMAIN pod'.annotations.entries <=>
                     readyAnnotation \in DOMAIN taskRun.annotations.entries]_vars

\* A pod with two sidecars built from a TaskRun without the annotation:
\* it has the release annotation and the TaskRun's own, not the ready one.
C19_Witness ==
    /\ phase = "running"
    /\ Len(taskSpec.sidecars) = 2
    /\ ~cfg.runningInEnvWithInjectedSidecars
    /\ DOMAIN pod.annotations.entries = {"owner", ReleaseAnnotation}
    /\ ~CarriesReady

(***************************************************************************)
(* validateString on varied texts                                          *)

\* Bounds: the length of a text over MatchAlphabet, and the number of
\* pieces of a text put together from MatchPieces.
MaxTextLen == 4
MaxPieces == 3

MatchAlphabet == {"$", "(", ")", "a", ".", "[", "]", "1"}

\* References ($(a), $(a.b[1]), $(a-b[*])), near misses ($(a[x]), $(a,
\* $(), $(a[]) ) and plain text.
MatchPieces ==
    {<<"$", "(", "a", ")">>,
     <<"$", "(", "a", ".", "b", "[", "1", "]", ")">>,
     <<"$", "(", "a", "-", "b", "[", "*", "]", ")">>,
     <<"$", "(", "a", "[", "x", "]", ")">>,
     <<"$", "(", "a">>,
     <<"$", "(", ")">>,
     <<"x", " ">>,
     <<")">>}

RECURSIVE Flatten(_, _)
Flatten(pieces, i) ==
    IF i > Len(pieces) THEN <<>> ELSE pieces[i] \o Flatten(pieces, i + 1)

MatchTexts ==
    {<<>>, Task1ResultRef}
    \cup SeqsUpTo(MatchAlphabet, MaxTextLen)
    \cup {Flatten(pieces, 1) : pieces \in SeqsUpTo(MatchPieces, MaxPieces)}

MatchInit ==
    /\ Idle
    /\ codecIn = NoOutcome
    /\ codecOut = CodecPending
    /\ matchIn \in MatchTexts
    /\ matchOut = MatchPending
    /\ NoMetrics

\* The parameter-wiring layer asks for the references of a text.
MatchText ==
    /\ matchOut = MatchPending
    /\ matchOut' = validateString(matchIn)
    /\ UNCHANGED <<reqVars, phase, pod, unitVars, codecVars, matchIn, metricsVars>>

MatchNext == MatchText

MatchSpec == MatchInit /\ [][MatchNext]_vars

\* t is one reference: $( , one or more characters of [_a-zA-Z0-9.-],
\* optionally [N] with N a run of digits or [*], then ).
IsReference(t) ==
    /\ Len(t) >= 4
    /\ t[1] = "$"
    /\ t[2] = "("
    /\ t[Len(t)] = ")"
    /\ \E n \in 3..(Len(t) - 1) :
          /\ \A k \in 3..n : t[k] \in NameChars
          /\ LET index == SubSeq(t, n + 1, Len(t) - 1) IN
                \/ index = <<>>
                \/ index = <<"[", "*", "]">>
                \/ /\ Len(index) >= 3
                   /\ index[1] = "["
                   /\ index[Len(index)] = "]"
                   /\ \A k \in 2..(Len(index) - 1) : index[k] \in Digits

\* The pairs <<s, e>> such that t from s to e is a reference.
ReferencesIn(t) ==
    {se \in (1..Len(t)) \X (1..Len(t)) : IsReference(SubSeq(t, se[1], se[2]))}

\* The bodies of the references of t found from position i on: the one
\* that starts leftmost, then those after its end.
RECURSIVE BodiesFrom(_, _)
BodiesFrom(t, i) ==
    LET ahead == {se \in ReferencesIn(t) : se[1] >= i} IN
    IF ahead = {} THEN <<>>
    ELSE LET first == CHOOSE se \in ahead : \A o \in ahead : se[1] <= o[1]
         IN <<SubSeq(t, first[1] + 2, first[2] - 1)>> \o BodiesFrom(t, first[2] + 1)

\* C20 as stated: on a text without reference validateString returns an
\* empty list that is not a null value.
C20_AsStated ==
    (matchOut # MatchPending /\ ReferencesIn(matchIn) = {}) =>
        /\ matchOut.items = <<>>
        /\ ~matchOut.isNil

\* C20, amended: validateString returns a list for every text. On a text
\* without reference it is the nil slice, which has no item; otherwise it
\* is not nil and holds, from left to right, the body of each reference
\* found leftmost and without overlap, without $( and ). On
\* $(tasks.task1.results.task1-result) it holds the one body
\* tasks.task1.results.task1-result.
C20_ReferenceBodies ==
    matchOut # MatchPending =>
        /\ matchOut.items = BodiesFrom(matchIn, 1)
        /\ matchOut.isNil <=> ReferencesIn(matchIn) = {}
        /\ matchOut.isNil => matchOut.items = <<>>
        /\ matchIn = Task1ResultRef =>
              /\ Len(matchOut.items) = 1
              /\ Str(matchOut.items[1]) = "tasks.task1.results.task1-result"

\* Two references around a near miss and plain text.
C20_Witness ==
    /\ matchIn = <<"$", "(", "a", ".", "b", "[", "1", "]", ")">>
                  \o <<"$", "(", "a", "[", "x", "]", ")">>
                  \o <<"$", "(", "a", ")">>
    /\ matchOut # MatchPending
    /\ Len(matchOut.items) = 2
    /\ Str(matchOut.items[1]) = "a.b[1]"
    /\ Str(matchOut.items[2]) = "a"

(***************************************************************************)
(* The metrics recorder of pipelinerunmetrics                              *)

\* Bound: the Recorder objects allocated in one run.
MaxRecorders == 3

\* A Recorder; the zero value Recorder{} is not initialized.
Recorder(initialized) == [initialized |-> initialized]

\* What a recording method returns on a Recorder: an error unless the
\* Recorder was initialized.
RecordingError(recorder) ==
    IF recorder.initialized THEN ""
    ELSE "ignoring the metrics recording, failed to initialize the metrics recorder"

MetricsInit ==
    /\ Idle
    /\ codecIn = NoOutcome
    /\ codecOut = CodecPending
    /\ matchIn = <<>>
    /\ matchOut = MatchPending
    /\ NoMetrics

\* metrics := Recorder{}
RecorderLiteral ==
    /\ Len(recorders) < MaxRecorders
    /\ recorders' = Append(recorders, Recorder(FALSE))
    /\ UNCHANGED <<reqVars, phase, pod, unitVars, codecVars, matchVars,
                   once, recorderPtr, recorderErr, lastCall>>

\* NewRecorder: the first call after the start or after a reset creates
\* the singleton, every call returns it.
NewRecorder ==
    /\ ~once
    /\ Len(recorders) < MaxRecorders
    /\ once' = TRUE
    /\ recorders' = Append(recorders, Recorder(TRUE))
    /\ recorderPtr' = Len(recorders) + 1
    /\ recorderErr' = ""
    /\ UNCHANGED <<reqVars, phase, pod, unitVars, codecVars, matchVars, lastCall>>

\* Mutant of unregisterMetrics: the sync.Once is not renewed.
unregisterMetricsKeepingOnce ==
    [once |-> once, r |-> 0, recorderErr |-> ""]

\* unregisterMetrics: once = sync.Once{}, r = nil, recorderErr = nil.
unregisterMetrics ==
    [once |-> FALSE, r |-> 0, recorderErr |-> ""]

\* A test resets the singleton.
Reset ==
    /\ once' = unregisterMetrics.once
    /\ recorderPtr' = unregisterMetrics.r
    /\ recorderErr' = unregisterMetrics.recorderErr
    /\ UNCHANGED <<reqVars, phase, pod, unitVars, codecVars, matchVars,
                   recorders, lastCall>>

\* A recording method is called on the Recorder h.
Record(op, h) ==
    /\ lastCall' = [op |-> op, recorder |-> h, err |-> RecordingError(recorders[h])]
    /\ UNCHANGED <<reqVars, phase, pod, unitVars, codecVars, matchVars,
                   once, recorderPtr, recorderErr, recorders>>

DurationAndCount == \E h \in 1..Len(recorders) : Record("DurationAndCount", h)

RunningPipelineRuns == \E h \in 1..Len(recorders) : Record("RunningPipelineRuns", h)

MetricsNext ==
    \/ RecorderLiteral
    \/ NewRecorder
    \/ Reset
    \/ DurationAndCount
    \/ RunningPipelineRuns

MetricsSpec == MetricsInit /\ [][MetricsNext]_vars

\* C21: in every run of Reset, NewRecorder, DurationAndCount and
\* RunningPipelineRuns, a recording call returns an error exactly when its
\* Recorder was not initialized by NewRecorder; while the singleton exists
\* it is an initialized Recorder without error, a reset leaves no
\* singleton, and the NewRecorder that follows a reset creates a new
\* initialized Recorder.
C21_RecorderLifecycle ==
    /\ [](/\ lastCall # NoCall =>
                (lastCall.err # "" <=> ~recorders[lastCall.recorder].initialized)
          /\ once => /\ recorderPtr \in 1..Len(recorders)
                     /\ recorders[recorderPtr].initialized
                     /\ recorderErr = ""
          /\ ~once => recorderPtr = 0)
    /\ [][/\ (once /\ ~once') => recorders' = recorders
          /\ (~once /\ once') => /\ recorderPtr' = Len(recorders) + 1
                                 /\ Len(recorders') = Len(recorders) + 1]_vars

\* The third Recorder is the singleton made after two resets, and a
\* recording on it has succeeded.
C21_Witness ==
    /\ once
    /\ recorderPtr = 3
    /\ recorders[1].initialized
    /\ recorders[2].initialized
    /\ lastCall = [op |-> "DurationAndCount", recorder |-> 3, err |-> ""]

\* Some step or sidecar of the TaskSpec has a script body.
HasScriptBody ==
    \/ \E p \in 1..Len(taskSpec.steps) : taskSpec.steps[p].script.kind # "any"
    \/ \E p \in 1..Len(taskSpec.sidecars) : taskSpec.sidecars[p].script.kind # "any"

\* Some step declares a working directory that has to be created.
NeedsWorkingDir ==
    \E p \in 1..Len(taskSpec.steps) :
        taskSpec.steps[p].workingDir \in {"/workspace/src", "src"}

\* C22: the init containers of the pod are the entrypoint init container,
\* first, then the script-staging one exactly when a step or sidecar has a
\* script body, then the working-directory initializer, only when a step
\* needs one.
C22_InitContainerOrder ==
    phase = "running" =>
        /\ pod.initContainers[1] = "place-tools"
        /\ pod.initContainers =
              <<"place-tools">>
              \o (IF HasScriptBody THEN <<"place-scripts">> ELSE <<>>)
              \o (IF NeedsWorkingDir THEN <<"working-dir-initializer">> ELSE <<>>)

\* The only script body is a sidecar's, and one step works below the
\* workspace root: all three init containers.
C22_Witness ==
    /\ phase = "running"
    /\ \A p \in 1..Len(taskSpec.steps) : taskSpec.steps[p].script.kind = "any"
    /\ HasScriptBody
    /\ NeedsWorkingDir
    /\ pod.initContainers = <<"place-tools", "place-scripts", "working-dir-initializer">>

(***************************************************************************)
(* Units with named steps and sidecars                                     *)

\* Steps and sidecars with names, among them a step and a sidecar of the
\* same name and names that begin with the other kind's prefix.
NamedSteps ==
    {MkStep("", "", FALSE, AnyScript("")),
     MkStep("a", "continue", TRUE, AnyScript("r")),
     MkStep("sidecar-a", "", FALSE, AnyScript(""))}
NamedSidecars ==
    {<<>>,
     <<MkSidecar("a")>>,
     <<MkSidecar("step-a"), MkSidecar("unnamed-0")>>}
NamedTaskSpecs ==
    {t \in {[steps |-> ss, sidecars |-> sc, results |-> rs] :
                ss \in SeqsUpTo(NamedSteps, 2),
                sc \in NamedSidecars,
                rs \in {<<>>, <<"r">>}} :
        WellFormedResults(t.steps, t.results)}

SidecarInit ==
    /\ cfg = DefaultConfig
    /\ taskRun = PlainTaskRun("run")
    /\ taskSpec \in NamedTaskSpecs
    /\ buildFail = NoFailure
    /\ NotBuilt

SidecarSpec == SidecarInit /\ [][Next]_vars

\* The positions of the sidecar containers in the pod.
SidecarPositions == (NSteps + 1)..Len(pod.containers)

\* C23: in the pod every sidecar container comes after all the step
\* containers and is named sidecar-<name>, a name no step container has;
\* it is not run through the wrapper and waits for no file, so that, while
\* the unit is not deleted, it can start whatever the steps have done; a
\* step waits only for markers that steps write, and the start of a
\* sidecar changes neither the state of a step nor the markers.
C23_SidecarsOutsideOrdering ==
    /\ [](phase = "running" =>
            /\ Len(pod.containers) = NSteps + Len(taskSpec.sidecars)
            /\ \A p \in 1..NSteps :
                  /\ pod.containers[p].command = EntrypointBinary
                  /\ pod.containers[p].waitFiles \subseteq
                        UNION {pod.containers[k].postFile : k \in 1..NSteps}
            /\ \A q \in SidecarPositions :
                  /\ pod.containers[q].name =
                        "sidecar-" \o taskSpec.sidecars[q - NSteps].name
                  /\ \A p \in 1..NSteps :
                        pod.containers[p].name # pod.containers[q].name
                  /\ pod.containers[q].command # EntrypointBinary
                  /\ pod.containers[q].waitFiles = {}
                  /\ pod.containers[q].postFile = {}
                  /\ (~cancelled /\ q \notin sidecarUp) => ENABLED StartSidecar(q))
    /\ [][sidecarUp' # sidecarUp =>
            /\ st' = st
            /\ markers' = markers
            /\ \A p \in 1..NSteps :
                  (ENABLED StartStep(p))' <=> ENABLED StartStep(p)]_vars

\* Both sidecars are up while the first step still waits to start and no
\* marker exists; a step and a sidecar were declared with clashing names.
C23_Witness ==
    /\ phase = "running"
    /\ NSteps = 2
    /\ taskSpec.steps[1].name = "sidecar-a"
    /\ taskSpec.steps[2].name = "a"
    /\ Len(taskSpec.sidecars) = 2
    /\ sidecarUp = {3, 4}
    /\ st = <<Waiting, Waiting>>
    /\ markers = {}
    /\ pod.containers[3].name = "sidecar-step-a"

\* The steps whose command is running.
RunningSteps == {p \in 1..NSteps : st[p] = Running}

\* C24: with every step run through the wrapper, in every interleaving of
\* the containers of the unit at most one step is Running at any time, and
\* a step after the first becomes Running only when the step before it
\* has left Running for a terminal state.
C24_OneStepRunning ==
    /\ [](Cardinality(RunningSteps) <= 1)
    /\ [][\A p \in 2..NSteps :
             (st[p] # Running /\ st'[p] = Running) =>
                 /\ st[p - 1] \in Terminal
                 /\ st'[p - 1] \in Terminal
                 /\ \A q \in 1..NSteps : q # p => st'[q] # Running]_vars

\* The third step runs after two steps that ended differently, while a
\* sidecar is up.
C24_Witness ==
    /\ phase = "running"
    /\ NSteps = 3
    /\ outcome[1].reason = ErroredIgnored
    /\ outcome[2].reason = Completed
    /\ RunningSteps = {3}
    /\ sidecarUp # {}

(***************************************************************************)
(* Progress of a unit under fair scheduling                                *)

\* The number of steps of the units whose progress is checked.
MaxProgressSteps == 2

\* The reconciler creates the unit, every wrapper whose wait files exist
\* gets to run its command, and every command that runs comes to an end:
\* each wrapper is a process of its own that the platform keeps scheduling.
\* The deletion of the unit and the expiry of a timeout may happen or not.
WrapperFairness ==
    /\ WF_vars(CreatePod)
    /\ \A p \in 1..MaxProgressSteps :
          /\ WF_vars(p <= NSteps /\ StartStep(p))
          /\ WF_vars(p <= NSteps /\ FinishStep(p))

\* The units of Init with at most MaxProgressSteps steps.
ProgressInit ==
    /\ Init
    /\ Len(taskSpec.steps) <= MaxProgressSteps

ProgressSpec == ProgressInit /\ [][Next]_vars /\ WrapperFairness

\* Every command that has ended either exited with code 0 or belongs to a
\* step with policy Continue.
EndsWellOrContinues ==
    \A p \in 1..NSteps :
        ended[p] # "" =>
            \/ ended[p] = "exit" /\ real[p] = {0}
            \/ Policy(p) = Continue

\* Every step is terminal and has written its completion marker.
AllStepsCompleted ==
    /\ phase = "running"
    /\ \A p \in 1..NSteps : st[p] \in Terminal /\ HasMarker(p)

\* Step p has failed under StopAndFail: by its exit code or its timeout.
StoppedAt(p) ==
    /\ st[p] = Failed
    /\ ended[p] \in {"exit", "timeout"}
    /\ Policy(p) = StopAndFail

\* C25: when Build succeeds, the unit is never deleted and every command
\* ends with exit code 0 or under policy Continue, then under fair
\* scheduling of the wrappers every step becomes terminal and every
\* completion marker is written. When a step has failed under StopAndFail,
\* the steps before it are terminal, those after it are Waiting, and no
\* step changes state and no marker is written any more.
C25_Progress ==
    /\ (buildFail = NoFailure /\ []~cancelled /\ []EndsWellOrContinues)
          => <>[]AllStepsCompleted
    /\ [](\A p \in 1..NSteps :
            StoppedAt(p) =>
                /\ \A q \in 1..NSteps : q < p => st[q] \in Terminal
                /\ \A q \in 1..NSteps : q > p => st[q] = Waiting)
    /\ [][(\E p \in 1..NSteps : StoppedAt(p)) =>
             /\ st' = st
             /\ markers' = markers]_vars

\* Both steps have completed, the first with an ignored error and the
\* second with an ignored timeout.
C25_Witness ==
    /\ NSteps = 2
    /\ AllStepsCompleted
    /\ ~cancelled
    /\ outcome[1].reason = ErroredIgnored
    /\ outcome[2].reason = TimedOut

====
